---- MODULE Spec2Model ----
(***************************************************************************)
(* Content pipeline of the sushi.lab site: the feed ingester               *)
(* (build-blog.js), the notebook ingester (build-notebooks.js) and the     *)
(* client notebook renderer (notebook-renderer.js).                        *)
(*                                                                         *)
(* The tree holds two copies of the feed ingester and of the renderer:     *)
(*   src/src/js/build-blog.js         and  src/unnamed/part_006            *)
(*   src/src/js/notebook-renderer.js  and  src/unnamed/part_007            *)
(* part_006 sanitizes content:encoded with DOMPurify, part_007 validates   *)
(* the slug and sanitizes the assembled body; the copies under src/src/js  *)
(* do neither.  Both copies are modelled; a definition of the second copy  *)
(* carries the suffix _p006 / _p007.                                       *)
(*                                                                         *)
(* Strings whose characters matter (titles, slugs, the nb parameter) are   *)
(* sequences of one-character strings.  HTML is a sequence of elements,    *)
(* each a record [tag, attrs].                                             *)
(***************************************************************************)
EXTENDS Integers, Sequences, FiniteSets, TLC

VARIABLES
    \* slugify as a pure function
    sTitle,          \* the title drawn
    sSlug,           \* slugify(sTitle)
    sReslug,         \* slugify(sSlug)
    sPc,             \* "title" -> "slug" -> "reslug"
    \* feed ingester (build-blog.js, part_006)
    blogPc,          \* "idle" | "fetching"
    blogFetch,       \* "none" | "pending" | "ok" | the rejection reason
    blogFeed,        \* items of the feed fetched by the current run
    blogIndexFile,   \* blog/_posts.json : [exists, entries]
    blogRenderedDir, \* blog/_rendered/ : slug -> contents of <slug>.json
    blogWritten,     \* slugs whose file the current run has written
    blogResult,      \* "none" | "running" | "returned" | "threw"
    \* notebook ingester (build-notebooks.js)
    notebooksDir,    \* tutorials/notebooks/ as the last run found it
    nbIndexFile,     \* tutorials/_notebooks.json : [exists, entries]
    nbRenderedDir,   \* tutorials/_rendered/ : slug -> contents of <slug>.json
    nbWritten,       \* slugs whose file the last run has written
    nbResult,        \* "none" | "returned" | "threw"
    \* client renderer (notebook-renderer.js, part_007): one page load
    rScript,         \* the copy of the script the page runs
    rPc,             \* "loaded" | "fetching" | "done"
    nbParam,         \* the nb query parameter: [present, value]
    location,        \* window.location.href
    fetches,         \* the fetch calls issued, in order
    rResponse,       \* how the fetch settled and what the page received
    elTitle,         \* #tutorial-title textContent
    elDesc,          \* #tutorial-desc textContent
    elTags,          \* whether #tutorial-tags has been filled
    elBody,          \* #tutorial-body innerHTML : [kind, html]
    \* one call of a pure function (validateSlug, parseFilename, ...)
    fnName,          \* the function called, "none" when no call is modelled
    fnArg,           \* its argument
    fnRet,           \* [returned |-> FALSE], or [returned |-> TRUE, value]
    \* fetchURL (build-blog.js, part_006): the transport of one feed run
    req,             \* the newest https.get request: [url, state]
    openHops,        \* URLs of redirected requests whose socket is still open
    fetchCalls       \* the calls of fetchURL build() has made

slugVars == <<sTitle, sSlug, sReslug, sPc>>

blogVars == <<blogPc, blogFetch, blogFeed, blogIndexFile,
              blogRenderedDir, blogWritten, blogResult>>

nbVars == <<notebooksDir, nbIndexFile, nbRenderedDir, nbWritten, nbResult>>

rVars == <<rScript, rPc, nbParam, location, fetches, rResponse,
           elTitle, elDesc, elTags, elBody>>

fnVars == <<fnName, fnArg, fnRet>>

netVars == <<req, openHops, fetchCalls>>

vars == <<slugVars, blogVars, nbVars, rVars, fnVars, netVars>>

(***************************************************************************)
(* Bounds                                                                  *)
(***************************************************************************)
MaxTail == 3
MaxItems == 2
MaxFiles == 3
MaxParamLen == 2

(***************************************************************************)
(* Characters                                                              *)
(***************************************************************************)
LowerChars == {"a", "b", "d", "e", "h", "l", "o", "r", "w"}
UpperChars == {"A", "H", "W"}
DigitChars == {"0", "1", "2", "4"}
SpaceChars == {" "}
Hyphen == "-"

Min(a, b) == IF a < b THEN a ELSE b

\* All sequences over S of length at most n.
SeqsUpTo(S, n) == UNION {[1..k -> S] : k \in 0..n}

\* n copies of the character c.
Rep(c, n) == [i \in 1..n |-> c]

(***************************************************************************)
(* JavaScript values: a string is its characters, a number its decimal     *)
(* digits                                                                  *)
(***************************************************************************)
JsValue(t, chars) == [type |-> t, chars |-> chars]
JsString(chars) == JsValue("string", chars)
JsNull == JsValue("null", <<>>)
JsUndefined == JsValue("undefined", <<>>)
JsNumber(digits) == JsValue("number", digits)

(***************************************************************************)
(* slugify                                                                 *)
(***************************************************************************)
toLowerCase(s) ==
    [i \in 1..Len(s) |-> CASE s[i] = "A" -> "a"
                           [] s[i] = "H" -> "h"
                           [] s[i] = "W" -> "w"
                           [] OTHER -> s[i]]

\* slugify without its second step
stripUnsafe_keepAll(s) == s

\* .replace(/[^a-z0-9\s-]/g, '')
stripUnsafe(s) ==
    LET keep(c) == c \in LowerChars \cup DigitChars \cup SpaceChars \cup {Hyphen}
    IN SelectSeq(s, keep)

\* A global replace of every maximal run of characters of R by one c: the
\* last character of each run stays (as c), the others of the run go.
replaceRuns(s, R, c) ==
    LET marked == [i \in 1..Len(s) |->
                     [ch   |-> s[i],
                      last |-> ~(s[i] \in R /\ i < Len(s) /\ s[i + 1] \in R)]]
        isLast(m) == m.last
        kept == SelectSeq(marked, isLast)
    IN [i \in 1..Len(kept) |-> IF kept[i].ch \in R THEN c ELSE kept[i].ch]

\* .replace(/\s+/g, '-') : every maximal run of whitespace becomes one hyphen
spacesToHyphen(s) == replaceRuns(s, SpaceChars, Hyphen)

\* .replace(/-+/g, '-') : every maximal run of hyphens becomes one hyphen
collapseHyphens(s) == replaceRuns(s, {Hyphen}, Hyphen)

\* .replace(/^-|-$/g, '') : one hyphen at the start and one at the end
trimHyphen(s) ==
    LET a == IF s # <<>> /\ Head(s) = Hyphen THEN Tail(s) ELSE s
    IN IF a # <<>> /\ a[Len(a)] = Hyphen THEN SubSeq(a, 1, Len(a) - 1) ELSE a

\* .slice(0, 80)
MaxSlugLen == 80

slice(s, n) == SubSeq(s, 1, Min(Len(s), n))

\* slugify with its first two steps in the other order
slugify_stripFirst(title) ==
    slice(trimHyphen(collapseHyphens(spacesToHyphen(toLowerCase(stripUnsafe(title))))),
          MaxSlugLen)

slugify(title) ==
    slice(trimHyphen(collapseHyphens(spacesToHyphen(stripUnsafe(toLowerCase(title))))),
          MaxSlugLen)

\* no pure function is being called
NotCalled == [returned |-> FALSE]
Returned(v) == [returned |-> TRUE, value |-> v]

FnIdle ==
    /\ fnName = "none"
    /\ fnArg = <<>>
    /\ fnRet = NotCalled

\* the slugify specification is not running
SlugIdle ==
    /\ sTitle = <<>>
    /\ sSlug = <<>>
    /\ sReslug = <<>>
    /\ sPc = "off"

(***************************************************************************)
(* HTML and the sanitizer (DOMPurify)                                      *)
(***************************************************************************)
Tags == {"p", "img", "div", "button", "script", "iframe"}
Attrs == {"src", "class", "data-action", "onerror", "onclick", "allow",
          "allowfullscreen", "frameborder", "target"}

Elem(t, as) == [tag |-> t, attrs |-> as]

\* DOMPurify's default allow-lists, restricted to Tags and Attrs
DefaultAllowedTags == {"p", "img", "div", "button"}
DefaultAllowedAttrs == {"src", "class", "data-action"}

NoConfig == [ADD_TAGS |-> {}, ADD_ATTR |-> {}]

\* DOMPurify.sanitize(html, cfg): elements outside the allow-list are removed,
\* attributes outside the allow-list are removed from the elements kept.
sanitize(html, cfg) ==
    LET allowedTags == DefaultAllowedTags \cup cfg.ADD_TAGS
        allowedAttrs == DefaultAllowedAttrs \cup cfg.ADD_ATTR
        kept == SelectSeq(html, LAMBDA e : e.tag \in allowedTags)
    IN [i \in 1..Len(kept) |->
           Elem(kept[i].tag, kept[i].attrs \cap allowedAttrs)]

(***************************************************************************)
(* Feed ingester: parseItem                                                *)
(***************************************************************************)
\* pubDate texts of the feed: two dates, and "soon", which is not a date
Jan == "Mon, 01 Jan 2024 00:00:00 GMT"
Feb == "Thu, 01 Feb 2024 00:00:00 GMT"

\* new Date(pubDate) is an Invalid Date
invalidDate(pubDate) == pubDate = "soon"

\* new Date(pubDate).toISOString().split('T')[0]; an ISO date YYYY-MM-DD is
\* held as the number YYYYMMDD and the empty string as 0, so that the order of
\* the numbers is the order localeCompare gives the strings.
toISODate(pubDate) ==
    CASE pubDate = Jan -> 20240101
      [] pubDate = Feb -> 20240201
      [] OTHER -> 0

Post(threw, slug, title, date, content) ==
    [threw |-> threw, slug |-> slug, title |-> title, date |-> date,
     content |-> content]

\* src/src/js/build-blog.js: content is the extracted content:encoded text
parseItem(itemXml) ==
    LET title == itemXml.title
        pubDate == itemXml.pubDate
        content == itemXml.content
        slug == slugify(title)
    IN IF pubDate # "" /\ invalidDate(pubDate)
       THEN Post(TRUE, <<>>, <<>>, 0, <<>>)
       ELSE Post(FALSE, slug, title,
                 IF pubDate # "" THEN toISODate(pubDate) ELSE 0, content)

FeedConfig == [ADD_TAGS |-> {"iframe"},
               ADD_ATTR |-> {"target", "allow", "allowfullscreen", "frameborder"}]

\* src/unnamed/part_006: content is DOMPurify's output on content:encoded
parseItem_p006(itemXml) ==
    LET title == itemXml.title
        pubDate == itemXml.pubDate
        rawContent == itemXml.content
        content == sanitize(rawContent, FeedConfig)
        slug == slugify(title)
    IN IF pubDate # "" /\ invalidDate(pubDate)
       THEN Post(TRUE, <<>>, <<>>, 0, <<>>)
       ELSE Post(FALSE, slug, title,
                 IF pubDate # "" THEN toISODate(pubDate) ELSE 0, content)

(***************************************************************************)
(* Feed ingester: build                                                    *)
(***************************************************************************)
NoIndexFile == [exists |-> FALSE, entries |-> <<>>]
IndexFile(entries) == [exists |-> TRUE, entries |-> entries]

\* writeFileSync(join(dir, `${slug}.json`), data)
writeFile(dir, slug, data) ==
    [s \in DOMAIN dir \cup {slug} |-> IF s = slug THEN data ELSE dir[s]]

\* the loop body without its continue
skipped_threwOnly(post) == post.threw

\* if (!post.title || !post.slug) continue;  and the catch of the loop body
skipped(post) == post.threw \/ post.title = <<>> \/ post.slug = <<>>

renderedPost(post) ==
    [meta |-> [slug |-> post.slug, title |-> post.title, date |-> post.date],
     content |-> post.content]

indexEntry(post) == [slug |-> post.slug, title |-> post.title, date |-> post.date]

\* the for loop of build, on the posts parseItem returned: the rendered
\* directory after the loop
RECURSIVE loopFiles(_, _)
loopFiles(posts, dir) ==
    IF posts = <<>> THEN dir
    ELSE IF skipped(Head(posts))
         THEN loopFiles(Tail(posts), dir)
         ELSE loopFiles(Tail(posts),
                        writeFile(dir, Head(posts).slug, renderedPost(Head(posts))))

\* the loop without its try/catch: the first item that throws ends it
RECURSIVE loopIndex_abort(_)
loopIndex_abort(posts) ==
    IF posts = <<>> THEN <<>>
    ELSE IF Head(posts).threw THEN <<>>
    ELSE IF skipped(Head(posts)) THEN loopIndex_abort(Tail(posts))
    ELSE <<indexEntry(Head(posts))>> \o loopIndex_abort(Tail(posts))

\* the index array after the loop
RECURSIVE loopIndex(_)
loopIndex(posts) ==
    IF posts = <<>> THEN <<>>
    ELSE IF skipped(Head(posts))
         THEN loopIndex(Tail(posts))
         ELSE <<indexEntry(Head(posts))>> \o loopIndex(Tail(posts))

\* slugs the loop wrote a file for
loopWritten(posts) ==
    {posts[i].slug : i \in {j \in DOMAIN posts : ~skipped(posts[j])}}

\* index.sort((a, b) => (b.date || '').localeCompare(a.date || '')) :
\* Array.prototype.sort is stable
RECURSIVE insertByDate(_, _)
insertByDate(e, sorted) ==
    IF sorted = <<>> THEN <<e>>
    ELSE IF Head(sorted).date >= e.date
         THEN <<Head(sorted)>> \o insertByDate(e, Tail(sorted))
         ELSE <<e>> \o sorted

\* build without its index.sort
sortNewestFirst_feedOrder(index) == index

RECURSIVE sortNewestFirst(_)
sortNewestFirst(index) ==
    IF index = <<>> THEN <<>>
    ELSE insertByDate(index[Len(index)],
                      sortNewestFirst(SubSeq(index, 1, Len(index) - 1)))

\* feed items
T_ab == <<"a", " ", "b">>
T_Ab == <<"A", "!", " ", "b">>
T_b == <<"b">>
T_bang == <<"!">>

H_script == <<Elem("script", {}), Elem("p", {})>>
H_p == <<Elem("p", {})>>
H_iframe == <<Elem("iframe", {"src", "allow", "frameborder"}), Elem("p", {})>>
H_onerror == <<Elem("p", {}), Elem("img", {"src", "onerror"})>>

Item(t, d, c) == [title |-> t, pubDate |-> d, content |-> c]

\* "a b" and "A! b" slugify to the same slug; "!" slugifies to the empty
\* slug; one item has no title, one no pubDate, one a pubDate that is no date
ItemSet == {Item(T_ab, Jan, H_script), Item(T_Ab, Feb, H_iframe),
            Item(T_b, "", H_onerror), Item(T_bang, Jan, H_p),
            Item(<<>>, Feb, H_p), Item(T_b, "soon", H_p)}

Feeds == SeqsUpTo(ItemSet, MaxItems)

RejectReasons == {"HTTP 404", "ECONNRESET", "Timeout"}

BlogInit ==
    /\ blogPc = "idle"
    /\ blogFetch = "none"
    /\ blogFeed = <<>>
    /\ blogIndexFile = NoIndexFile
    /\ blogRenderedDir = <<>>
    /\ blogWritten = {}
    /\ blogResult = "none"

\* build() up to the await of fetchURL(SUBSTACK_FEED_URL)
buildBlogStart ==
    /\ blogPc = "idle"
    /\ blogPc' = "fetching"
    /\ blogFetch' = "pending"
    /\ blogFeed' = <<>>
    /\ blogWritten' = {}
    /\ blogResult' = "running"
    /\ UNCHANGED <<blogIndexFile, blogRenderedDir>>

\* build's catch without its writeFileSync and with the error thrown on
buildBlogFetchFailed_rethrow ==
    /\ blogPc = "fetching"
    /\ \E reason \in RejectReasons : blogFetch' = reason
    /\ blogPc' = "idle"
    /\ blogResult' = "threw"
    /\ UNCHANGED <<blogIndexFile, blogFeed, blogRenderedDir, blogWritten>>

\* fetchURL rejects (non-200 status, request error, timeout): build's catch
\* writes the empty index and returns
buildBlogFetchFailed ==
    /\ blogPc = "fetching"
    /\ \E reason \in RejectReasons : blogFetch' = reason
    /\ blogIndexFile' = IndexFile(<<>>)
    /\ blogPc' = "idle"
    /\ blogResult' = "returned"
    /\ UNCHANGED <<blogFeed, blogRenderedDir, blogWritten>>

\* build() after the await, given the posts parseItem returned for the items
buildBlogRest(items, posts) ==
    /\ blogFetch' = "ok"
    /\ blogFeed' = items
    /\ blogPc' = "idle"
    /\ blogResult' = "returned"
    /\ IF Len(items) = 0
       THEN /\ blogIndexFile' = IndexFile(<<>>)
            /\ UNCHANGED <<blogRenderedDir, blogWritten>>
       ELSE /\ blogRenderedDir' = loopFiles(posts, blogRenderedDir)
            /\ blogWritten' = loopWritten(posts)
            /\ blogIndexFile' = IndexFile(sortNewestFirst(loopIndex(posts)))

\* src/src/js/build-blog.js: fetchURL resolves with the feed
buildBlog ==
    /\ blogPc = "fetching"
    /\ \E items \in Feeds :
          buildBlogRest(items, [i \in DOMAIN items |-> parseItem(items[i])])

\* src/unnamed/part_006: fetchURL resolves with the feed
buildBlog_p006 ==
    /\ blogPc = "fetching"
    /\ \E items \in Feeds :
          buildBlogRest(items, [i \in DOMAIN items |-> parseItem_p006(items[i])])

(***************************************************************************)
(* fetchURL (build-blog.js 21-38, part_006 42-59, the same text): the      *)
(* https.get requests of the one call build() makes, and the promise that  *)
(* call returns, which is blogFetch.  A redirect calls fetchURL again and  *)
(* chains the new promise to the old one, so only the newest request and   *)
(* the promise build() awaits are kept; the requests before it matter only *)
(* through their sockets: one the server left open still has its idle      *)
(* timer armed, one the server closed has none.                            *)
(***************************************************************************)
FeedUrl == "substack.com/feed"

Urls == {FeedUrl, "moved"}

NoRequest == [url |-> "none", state |-> "none"]

NetIdle ==
    /\ req = NoRequest
    /\ openHops = {}
    /\ fetchCalls = 0

\* https.get(url, ..., callback) with the error and timeout listeners attached
httpsGet(url) == [url |-> url, state |-> "sent"]

\* build() up to the await, with the request fetchURL sends
fetchStart ==
    /\ fetchCalls = 0
    /\ buildBlogStart
    /\ fetchCalls' = 1
    /\ req' = httpsGet(FeedUrl)
    /\ UNCHANGED openHops

\* resolve(data), and build() after the await when its promise was pending
resolveFetch(after) ==
    /\ req' = after
    /\ UNCHANGED fetchCalls
    /\ IF blogFetch = "pending"
       THEN buildBlog \/ buildBlog_p006
       ELSE UNCHANGED blogVars

\* a rejection that makes build() call fetchURL once more
rejectFetch_retry(reason, after) ==
    IF blogFetch = "pending" /\ fetchCalls < 2
    THEN /\ fetchCalls' = fetchCalls + 1
         /\ req' = httpsGet(FeedUrl)
         /\ UNCHANGED blogVars
    ELSE /\ req' = after
         /\ UNCHANGED fetchCalls
         /\ IF blogFetch = "pending"
            THEN buildBlogFetchFailed /\ blogFetch' = reason
            ELSE UNCHANGED blogVars

\* reject(reason), and build()'s catch when its promise was pending; a promise
\* settles once, a later resolve or reject does nothing
rejectFetch(reason, after) ==
    /\ req' = after
    /\ UNCHANGED fetchCalls
    /\ IF blogFetch = "pending"
       THEN buildBlogFetchFailed /\ blogFetch' = reason
       ELSE UNCHANGED blogVars

\* the response is a 3xx with a Location header: fetchURL(location), whose
\* promise is chained; the response is not read, and the server either keeps
\* the connection (the socket stays idle) or closes it
respondRedirect ==
    /\ req.state = "sent"
    /\ \E loc \in Urls : req' = httpsGet(loc)
    /\ \E keepAlive \in BOOLEAN :
          openHops' = IF keepAlive THEN openHops \cup {req.url} ELSE openHops
    /\ UNCHANGED <<blogVars, fetchCalls>>

\* the response has another status than 200
respondNotOk ==
    /\ req.state = "sent"
    /\ rejectFetch("HTTP 404", [req EXCEPT !.state = "rejected"])
    /\ UNCHANGED openHops

\* the request emits 'error' (no connection, reset before the response)
requestError ==
    /\ req.state = "sent"
    /\ rejectFetch("ECONNRESET", [req EXCEPT !.state = "failed"])
    /\ UNCHANGED openHops

\* the response is a 200: the data and end listeners are attached
respondOk ==
    /\ req.state = "sent"
    /\ req' = [req EXCEPT !.state = "receiving"]
    /\ UNCHANGED <<blogVars, openHops, fetchCalls>>

\* the response emits 'end'
responseEnd ==
    /\ req.state = "receiving"
    /\ resolveFetch([req EXCEPT !.state = "ended"])
    /\ UNCHANGED openHops

\* the connection is lost in the middle of the body: the response emits
\* 'aborted'; whether 'end' follows depends on the version of Node (it does up
\* to Node 12, later versions destroy the response and emit no 'end'), and
\* the response has no error listener
responseAborted ==
    /\ req.state = "receiving"
    /\ \/ resolveFetch([req EXCEPT !.state = "ended"])
       \/ /\ req' = [req EXCEPT !.state = "aborted"]
          /\ UNCHANGED <<blogVars, fetchCalls>>
    /\ UNCHANGED openHops

\* the socket of a request to url has been idle for 15 seconds: req.destroy()
\* and reject(new Error('Timeout')).  The socket is that of the newest request
\* or one a redirected request still holds.
requestTimeout(url) ==
    \/ /\ req.url = url
       /\ req.state \in {"sent", "receiving"}
       /\ rejectFetch("Timeout", [req EXCEPT !.state = "destroyed"])
       /\ UNCHANGED openHops
    \/ /\ url \in openHops
       /\ openHops' = openHops \ {url}
       /\ rejectFetch("Timeout", req)

(***************************************************************************)
(* Notebook ingester: file names                                           *)
(***************************************************************************)
\* the characters of file names in the order of their UTF-16 code units, the
\* order Array.prototype.sort() compares strings by
CharOrder == <<"-", ".", "0", "1", "2", "3", "4", "5", "6", "7", "8", "9",
               "A", "_", "a", "b", "i", "n", "p", "t", "x", "y">>

CodeUnit == [c \in {CharOrder[i] : i \in DOMAIN CharOrder} |->
                CHOOSE i \in DOMAIN CharOrder : CharOrder[i] = c]

charCode(c) == CodeUnit[c]

isDigit(c) == c \in {"0", "1", "2", "3", "4", "5", "6", "7", "8", "9"}

RECURSIVE lexLess(_, _)
lexLess(a, b) ==
    IF b = <<>> THEN FALSE
    ELSE IF a = <<>> THEN TRUE
    ELSE IF Head(a) = Head(b) THEN lexLess(Tail(a), Tail(b))
    ELSE charCode(Head(a)) < charCode(Head(b))

endsWith(s, suffix) ==
    /\ Len(s) >= Len(suffix)
    /\ SubSeq(s, Len(s) - Len(suffix) + 1, Len(s)) = suffix

Ipynb == <<".", "i", "p", "y", "n", "b">>

\* path.basename(filename, '.ipynb') of a name without directory part
basename(filename, ext) ==
    IF filename = ext THEN <<>>
    ELSE IF endsWith(filename, ext)
         THEN SubSeq(filename, 1, Len(filename) - Len(ext))
         ELSE filename

\* base.match(/^(\d{4}-\d{2}-\d{2})_(.+)$/)
dateMatch(base) ==
    /\ Len(base) >= 12
    /\ \A i \in {1, 2, 3, 4, 6, 7, 9, 10} : isDigit(base[i])
    /\ base[5] = "-"
    /\ base[8] = "-"
    /\ base[11] = "_"

\* parseFilename that never finds the date prefix
parseFilename_noDate(filename) ==
    [date |-> <<>>, slug |-> basename(filename, Ipynb)]

parseFilename(filename) ==
    LET base == basename(filename, Ipynb)
    IN IF dateMatch(base)
       THEN [date |-> SubSeq(base, 1, 10), slug |-> SubSeq(base, 12, Len(base))]
       ELSE [date |-> <<>>, slug |-> base]

(***************************************************************************)
(* Notebook ingester: parseFrontmatter                                     *)
(* A text is held as its lines (the parts between "\n"), a line as its      *)
(* characters.                                                              *)
(***************************************************************************)
Quote == "\""
Dashes == <<"-", "-", "-">>

\* \w on the characters keys are written with
WordChars == {"a", "b", "e", "g", "i", "k", "l", "s", "t", "T", "1", "_"}

startsWith(s, prefix) ==
    /\ Len(s) >= Len(prefix)
    /\ SubSeq(s, 1, Len(prefix)) = prefix

\* the number of characters of C that s starts with
leading(s, C) ==
    LET stops == {i \in DOMAIN s : s[i] \notin C}
    IN IF stops = {} THEN Len(s)
       ELSE (CHOOSE i \in stops : \A j \in stops : i <= j) - 1

dropLeading(s, C) == SubSeq(s, leading(s, C) + 1, Len(s))

\* String.prototype.trim
trim(s) ==
    LET t == dropLeading(s, SpaceChars)
        keeps == {i \in DOMAIN t : t[i] \notin SpaceChars}
    IN IF keeps = {} THEN <<>>
       ELSE SubSeq(t, 1, CHOOSE i \in keeps : \A j \in keeps : j <= i)

JsArray(items) == [type |-> "array", items |-> items]

\* JSON.parse on texts made of [ ] , " digits, spaces and letters: a value
\* is a string, a number or an array; anything else is a SyntaxError
ParseFail == [ok |-> FALSE]

RECURSIVE parseJsonValue(_), parseJsonItems(_, _)
parseJsonValue(text) ==
    LET s == dropLeading(text, SpaceChars)
    IN IF s = <<>> THEN ParseFail
       ELSE IF Head(s) = Quote
       THEN LET closes == {i \in 2..Len(s) : s[i] = Quote}
            IN IF closes = {} THEN ParseFail
               ELSE LET j == CHOOSE i \in closes : \A k \in closes : i <= k
                    IN [ok |-> TRUE, val |-> JsString(SubSeq(s, 2, j - 1)),
                        rest |-> SubSeq(s, j + 1, Len(s))]
       ELSE IF isDigit(Head(s))
       THEN LET n == IF Head(s) = "0" THEN 1
                     ELSE leading(s, {"0", "1", "2", "3", "4", "5", "6", "7", "8", "9"})
            IN [ok |-> TRUE, val |-> JsNumber(SubSeq(s, 1, n)),
                rest |-> SubSeq(s, n + 1, Len(s))]
       ELSE IF Head(s) = "["
       THEN LET t == dropLeading(Tail(s), SpaceChars)
            IN IF t # <<>> /\ Head(t) = "]"
               THEN [ok |-> TRUE, val |-> JsArray(<<>>), rest |-> Tail(t)]
               ELSE parseJsonItems(t, <<>>)
       ELSE ParseFail

parseJsonItems(text, items) ==
    LET r == parseJsonValue(text)
    IN IF ~r.ok THEN ParseFail
       ELSE LET t == dropLeading(r.rest, SpaceChars)
            IN IF t = <<>> THEN ParseFail
               ELSE IF Head(t) = ","
               THEN parseJsonItems(Tail(t), Append(items, r.val))
               ELSE IF Head(t) = "]"
               THEN [ok |-> TRUE, val |-> JsArray(Append(items, r.val)),
                     rest |-> Tail(t)]
               ELSE ParseFail

JSONparse(text) ==
    LET r == parseJsonValue(text)
    IN IF r.ok /\ dropLeading(r.rest, SpaceChars) = <<>>
       THEN [threw |-> FALSE, value |-> r.val]
       ELSE [threw |-> TRUE]

\* text.match(/^---\s*\n([\s\S]*?)\n---/): the lines between the opening
\* line and the first later line that starts with ---
frontmatterMatch(lines) ==
    LET closing == {j \in 3..Len(lines) : startsWith(lines[j], Dashes)}
    IN IF /\ Len(lines) >= 3
          /\ startsWith(lines[1], Dashes)
          /\ dropLeading(SubSeq(lines[1], 4, Len(lines[1])), SpaceChars) = <<>>
          /\ closing # {}
       THEN [matched |-> TRUE,
             block |-> SubSeq(lines, 2,
                          (CHOOSE j \in closing : \A k \in closing : j <= k) - 1)]
       ELSE [matched |-> FALSE]

\* line.match(/^(\w+)\s*:\s*(.+)$/), with kv[1].trim() and kv[2].trim()
keyValue(line) ==
    LET n == leading(line, WordChars)
        afterKey == dropLeading(SubSeq(line, n + 1, Len(line)), SpaceChars)
    IN IF n >= 1 /\ Len(afterKey) >= 2 /\ Head(afterKey) = ":"
       THEN [matched |-> TRUE, key |-> SubSeq(line, 1, n),
             value |-> trim(Tail(afterKey))]
       ELSE [matched |-> FALSE]

\* value.slice(1, -1) when the value starts and ends with the same quote
unquote(value) ==
    IF value # <<>> /\ \E q \in {Quote, "'"} :
                          Head(value) = q /\ value[Len(value)] = q
    THEN SubSeq(value, 2, Len(value) - 1)
    ELSE value

\* the value of a line without the attempt to parse it as JSON
parseValue_noJson(raw) == JsString(unquote(raw))

\* the value stored for a line: quotes removed, then JSON.parse when it is
\* bracket-delimited, the string itself when JSON.parse throws
parseValue(raw) ==
    LET value == unquote(raw)
    IN IF value # <<>> /\ Head(value) = "[" /\ value[Len(value)] = "]"
       THEN IF JSONparse(value).threw THEN JsString(value)
            ELSE JSONparse(value).value
       ELSE JsString(value)

\* meta[key] = value
setKey(meta, key, value) ==
    [k \in DOMAIN meta \cup {key} |-> IF k = key THEN value ELSE meta[k]]

\* the for loop over the lines of the block
RECURSIVE parseLines(_, _)
parseLines(lines, meta) ==
    IF lines = <<>> THEN meta
    ELSE LET kv == keyValue(Head(lines))
         IN IF kv.matched
            THEN parseLines(Tail(lines), setKey(meta, kv.key, parseValue(kv.value)))
            ELSE parseLines(Tail(lines), meta)

\* parseFrontmatter(source): the metadata object, keys to values
parseFrontmatter(lines) ==
    IF frontmatterMatch(lines).matched
    THEN parseLines(frontmatterMatch(lines).block, <<>>)
    ELSE <<>>

(***************************************************************************)
(* Notebook ingester: processNotebook                                      *)
(***************************************************************************)
\* A notebook file: json = FALSE when JSON.parse throws on its text.  A cell
\* is [cell_type, source, outputs], source a sequence of lines; an output is
\* [output_type, png, html, plain]: png and plain tell whether data holds
\* image/png and text/plain, html is data['text/html'] (<<>> when absent).
Cell(t, src, outs) == [cell_type |-> t, source |-> src, outputs |-> outs]
Output(t, png, html, plain) ==
    [output_type |-> t, png |-> png, html |-> html, plain |-> plain]

\* firstSource.trim().startsWith('---')
hasFrontmatter(cells) ==
    LET lines == SelectSeq(cells[1].source, LAMBDA l : l # "")
    IN lines # <<>> /\ Head(lines) = "---"

\* text.match(/^---\s*\n([\s\S]*?)\n---/) of parseFrontmatter, for a source
\* given by its lines: whether a frontmatter block is found
frontmatterParsed(source) ==
    /\ Len(source) >= 3
    /\ source[1] = "---"
    /\ \E j \in 3..Len(source) : source[j] = "---"

Processed(t, html) == [type |-> t, html |-> html]

\* the callback with the text/html data passed on as it is
processOutput_raw(output) ==
    IF output.output_type = "stream" THEN Processed("text", <<>>)
    ELSE IF output.output_type \in {"execute_result", "display_data"}
         THEN IF output.png THEN Processed("image", <<>>)
              ELSE IF output.html # <<>> THEN Processed("html", output.html)
              ELSE IF output.plain THEN Processed("text", <<>>)
              ELSE Processed("null", <<>>)
    ELSE IF output.output_type = "error" THEN Processed("error", <<>>)
    ELSE Processed("null", <<>>)

\* the callback of (cell.outputs || []).map(...); type "null" is null
processOutput(output) ==
    IF output.output_type = "stream" THEN Processed("text", <<>>)
    ELSE IF output.output_type \in {"execute_result", "display_data"}
         THEN IF output.png THEN Processed("image", <<>>)
              ELSE IF output.html # <<>>
                   THEN Processed("html", sanitize(output.html, NoConfig))
              ELSE IF output.plain THEN Processed("text", <<>>)
              ELSE Processed("null", <<>>)
    ELSE IF output.output_type = "error" THEN Processed("error", <<>>)
    ELSE Processed("null", <<>>)

\* .map(...) without the .filter(Boolean) that follows it
processOutputs_noFilter(outputs) ==
    [i \in DOMAIN outputs |-> processOutput(outputs[i])]

\* .map(...).filter(Boolean)
processOutputs(outputs) ==
    SelectSeq([i \in DOMAIN outputs |-> processOutput(outputs[i])],
              LAMBDA o : o.type # "null")

\* the for loop over cells[startIdx..]
RECURSIVE processCells(_)
processCells(cells) ==
    IF cells = <<>> THEN <<>>
    ELSE LET cell == Head(cells)
         IN IF cell.cell_type = "markdown"
            THEN <<[type |-> "markdown", source |-> cell.source, outputs |-> <<>>]>>
                     \o processCells(Tail(cells))
            ELSE IF cell.cell_type = "code"
            THEN <<[type |-> "code", source |-> cell.source,
                    outputs |-> processOutputs(cell.outputs)]>>
                     \o processCells(Tail(cells))
            ELSE processCells(Tail(cells))

\* processNotebook(filepath): outcome "threw" (JSON.parse), "null" (no cells)
\* or "entry" with the rendered data written and the index entry returned
processNotebook(filename, file) ==
    IF ~file.json THEN [outcome |-> "threw"]
    ELSE IF Len(file.cells) = 0 THEN [outcome |-> "null"]
    ELSE LET parsed == parseFilename(filename)
             startIdx == IF hasFrontmatter(file.cells) THEN 1 ELSE 0
             processedCells ==
                 processCells(SubSeq(file.cells, startIdx + 1, Len(file.cells)))
         IN [outcome |-> "entry",
             slug |-> parsed.slug,
             renderedData |-> [meta |-> [slug |-> parsed.slug, date |-> parsed.date,
                                         filename |-> filename],
                               cells |-> processedCells],
             entry |-> [slug |-> parsed.slug, date |-> parsed.date,
                        cellCount |-> Len(processedCells), filename |-> filename]]

(***************************************************************************)
(* Notebook ingester: build                                                *)
(***************************************************************************)
\* readdirSync(...).filter(f => f.endsWith('.ipynb')).sort().reverse()
RECURSIVE sortDescending(_)
sortDescending(names) ==
    IF names = {} THEN <<>>
    ELSE LET top == CHOOSE n \in names : \A m \in names : m = n \/ lexLess(m, n)
         IN <<top>> \o sortDescending(names \ {top})

\* the listing without its reverse(): ascending
listNotebooks_ascending(dir) ==
    LET d == sortDescending({f \in DOMAIN dir.files : endsWith(f, Ipynb)})
    IN [i \in 1..Len(d) |-> d[Len(d) + 1 - i]]

listNotebooks(dir) ==
    sortDescending({f \in DOMAIN dir.files : endsWith(f, Ipynb)})

\* the for loop of build stopped by the first file that throws
RECURSIVE loopNotebooks_abort(_, _, _)
loopNotebooks_abort(files, dir, out) ==
    IF files = <<>> THEN out
    ELSE LET r == processNotebook(Head(files), dir.files[Head(files)])
         IN IF r.outcome = "entry"
            THEN loopNotebooks_abort(Tail(files), dir,
                     [index |-> Append(out.index, r.entry),
                      rendered |-> writeFile(out.rendered, r.slug, r.renderedData),
                      written |-> out.written \cup {r.slug}])
            ELSE IF r.outcome = "threw" THEN out
            ELSE loopNotebooks_abort(Tail(files), dir, out)

\* the for loop of build: out = [index, rendered, written]
RECURSIVE loopNotebooks(_, _, _)
loopNotebooks(files, dir, out) ==
    IF files = <<>> THEN out
    ELSE LET r == processNotebook(Head(files), dir.files[Head(files)])
         IN IF r.outcome = "entry"
            THEN loopNotebooks(Tail(files), dir,
                     [index |-> Append(out.index, r.entry),
                      rendered |-> writeFile(out.rendered, r.slug, r.renderedData),
                      written |-> out.written \cup {r.slug}])
            ELSE loopNotebooks(Tail(files), dir, out)

\* notebook files
D_jan == <<"2", "0", "2", "4", "-", "0", "1", "-", "0", "1">>
D_feb == <<"2", "0", "2", "4", "-", "0", "2", "-", "0", "1">>

N_jan_a == D_jan \o <<"_", "a">> \o Ipynb
N_feb_a == D_feb \o <<"_", "a">> \o Ipynb
N_b == <<"b">> \o Ipynb
N_txt == <<"b", ".", "t", "x", "t">>

NotebookNames == {N_jan_a, N_feb_a, N_b, N_txt}

R_onerror == <<Elem("p", {}), Elem("img", {"src", "onerror"}), Elem("script", {})>>

NB_badJson == [json |-> FALSE, cells |-> <<>>]
NB_noCells == [json |-> TRUE, cells |-> <<>>]
NB_html ==
    [json |-> TRUE,
     cells |-> <<Cell("markdown", <<"---", "title: T", "---">>, <<>>),
                 Cell("code", <<"df">>,
                      <<Output("stream", FALSE, <<>>, FALSE),
                        Output("execute_result", FALSE, R_onerror, TRUE)>>)>>]
NB_plain ==
    [json |-> TRUE,
     cells |-> <<Cell("markdown", <<"# A">>, <<>>),
                 Cell("raw", <<"x">>, <<>>),
                 Cell("code", <<"1">>,
                      <<Output("display_data", TRUE, H_script, TRUE),
                        Output("display_data", FALSE, H_p, FALSE)>>)>>]

\* a frontmatter cell and a raw cell: no markdown or code cell is left
NB_rawOnly ==
    [json |-> TRUE,
     cells |-> <<Cell("markdown", <<"---", "title: T", "---">>, <<>>),
                 Cell("raw", <<"x">>, <<>>)>>]

NotebookFiles == {NB_badJson, NB_noCells, NB_html, NB_plain, NB_rawOnly}

\* the states tutorials/notebooks/ can be in: missing, or holding some files;
\* a file that is no notebook holds text that is no JSON
Dirs ==
    {[exists |-> FALSE, files |-> <<>>]} \cup
    {[exists |-> TRUE, files |-> f] :
        f \in UNION {{g \in [S -> NotebookFiles] : N_txt \in S => g[N_txt] = NB_badJson}
                        : S \in {T \in SUBSET NotebookNames : Cardinality(T) <= MaxFiles}}}

NbInit ==
    /\ notebooksDir = [exists |-> FALSE, files |-> <<>>]
    /\ nbIndexFile = NoIndexFile
    /\ nbRenderedDir = <<>>
    /\ nbWritten = {}
    /\ nbResult = "none"

\* build() without its existsSync test: readdirSync throws ENOENT
buildNotebooksNoDir_throw ==
    /\ notebooksDir' = [exists |-> FALSE, files |-> <<>>]
    /\ nbWritten' = {}
    /\ nbResult' = "threw"
    /\ UNCHANGED <<nbIndexFile, nbRenderedDir>>

\* build() with tutorials/notebooks/ missing
buildNotebooksNoDir ==
    /\ notebooksDir' = [exists |-> FALSE, files |-> <<>>]
    /\ nbIndexFile' = IndexFile(<<>>)
    /\ nbWritten' = {}
    /\ nbResult' = "returned"
    /\ UNCHANGED nbRenderedDir

\* what the loop of build pushes and writes for each state of the source
\* directory, the files it writes being collected in rendered
LoopOutcome ==
    [dir \in Dirs |->
        loopNotebooks(listNotebooks(dir), dir,
                      [index |-> <<>>, rendered |-> <<>>, written |-> {}])]

\* the output directory after the files of rendered were written into it
writeFiles(dir, rendered) ==
    [s \in DOMAIN dir \cup DOMAIN rendered |->
        IF s \in DOMAIN rendered THEN rendered[s] ELSE dir[s]]

\* build() with tutorials/notebooks/ present
buildNotebooks ==
    \E dir \in Dirs :
        /\ dir.exists
        /\ notebooksDir' = dir
        /\ LET out == LoopOutcome[dir]
           IN /\ nbIndexFile' = IndexFile(out.index)
              /\ nbRenderedDir' = writeFiles(nbRenderedDir, out.rendered)
              /\ nbWritten' = out.written
        /\ nbResult' = "returned"

(***************************************************************************)
(* Client renderer                                                         *)
(***************************************************************************)
\* characters of the nb parameter
ParamChars == {"a", "A", "1", "_", "-", ".", "/"}

\* /^[a-zA-Z0-9_-]+$/.test(slug)
slugPattern(slug) ==
    /\ slug # <<>>
    /\ \A i \in DOMAIN slug :
          slug[i] \in LowerChars \cup UpperChars \cup DigitChars \cup {"_", "-"}

\* !v
falsy(v) ==
    \/ v.type \in {"null", "undefined"}
    \/ v.type = "string" /\ v.chars = <<>>
    \/ v.type = "number" /\ v.chars = <<"0">>

\* validateSlug with only its first test
validateSlug_truthy(slug) ==
    IF falsy(slug) \/ slug.type # "string" THEN JsNull ELSE slug

\* src/src/js/utils.js
validateSlug(slug) ==
    IF falsy(slug) \/ slug.type # "string" THEN JsNull
    ELSE IF slugPattern(slug.chars) THEN slug
    ELSE JsNull

\* encodeURIComponent on ParamChars: only "/" is escaped
RECURSIVE encodeURIComponent(_)
encodeURIComponent(s) ==
    IF s = <<>> THEN <<>>
    ELSE (IF Head(s) = "/" THEN <<"%", "2", "F">> ELSE <<Head(s)>>)
             \o encodeURIComponent(Tail(s))

\* `/tutorials/_rendered/${name}.json`
renderedUrl(name) == [dir |-> "/tutorials/_rendered/", name |-> name, ext |-> ".json"]

ViewPage == "/tutorials/view.html"
ListingPage == "/tutorials/"

NotFoundTitle == "Tutorial Not Found"
NotFoundDesc == "The requested tutorial could not be loaded."
InitialBody == [kind |-> "initial", html |-> <<>>]
NotFoundBody == [kind |-> "fallback", html |-> <<Elem("p", {})>>]

\* the catch block with the body left as it is
catchFallback_keepBody(page) ==
    [page EXCEPT !.title = NotFoundTitle, !.desc = NotFoundDesc]

\* the catch block of init, on the page [title, desc, tags, body, threw]
catchFallback(page) ==
    [page EXCEPT !.title = NotFoundTitle, !.desc = NotFoundDesc,
                 !.body = NotFoundBody]

\* A rendered cell as fetched: [type, sourceOk, html, outputs]; sourceOk is
\* FALSE when source is no string, html holds the HTML elements written in a
\* markdown source (parseInline passes them on), outputs as processOutput
\* writes them.
RCell(t, ok, html, outs) == [type |-> t, sourceOk |-> ok, html |-> html, outputs |-> outs]

RenderConfig == [ADD_TAGS |-> {"span"}, ADD_ATTR |-> {"data-action", "data-lucide", "class"}]

\* src/src/js/notebook-renderer.js, the callback of cell.outputs.map(...)
renderOutput(output) ==
    IF output.type = "image" THEN <<Elem("div", {"class"}), Elem("img", {"src"})>>
    ELSE IF output.type = "html" THEN <<Elem("div", {"class"})>> \o output.html
    ELSE IF output.type \in {"text", "error"} THEN <<Elem("div", {"class"})>>
    ELSE <<>>

\* src/unnamed/part_007, the callback of cell.outputs.map(...)
renderOutput_p007(output) ==
    IF output.type = "image" THEN <<Elem("div", {"class"}), Elem("img", {"src"})>>
    ELSE IF output.type = "html"
         THEN <<Elem("div", {"class"})>> \o sanitize(output.html, NoConfig)
    ELSE IF output.type \in {"text", "error"} THEN <<Elem("div", {"class"})>>
    ELSE <<>>

RECURSIVE flatten(_)
flatten(seqs) == IF seqs = <<>> THEN <<>> ELSE Head(seqs) \o flatten(Tail(seqs))

\* src/src/js/notebook-renderer.js renderCell: the elements of one cell
renderCell(cell) ==
    IF cell.type = "markdown"
    THEN <<Elem("div", {"class"})>> \o cell.html
    ELSE IF cell.type = "code"
    THEN <<Elem("div", {"class"}), Elem("button", {"class", "onclick"})>>
             \o flatten([i \in DOMAIN cell.outputs |-> renderOutput(cell.outputs[i])])
    ELSE <<>>

\* src/unnamed/part_007 renderCell
renderCell_p007(cell) ==
    IF cell.type = "markdown"
    THEN <<Elem("div", {"class"})>> \o cell.html
    ELSE IF cell.type = "code"
    THEN <<Elem("div", {"class"}), Elem("button", {"class", "data-action"})>>
             \o flatten([i \in DOMAIN cell.outputs |-> renderOutput_p007(cell.outputs[i])])
    ELSE <<>>

\* parseMarkdown / renderCodeSource call a string method of cell.source
cellThrows(cell) == cell.type \in {"markdown", "code"} /\ ~cell.sourceOk

\* The page after the try block of init ran on the fetched data with the
\* given body HTML (threw = some statement of the block threw):
\*   meta.title throws when data has no meta; title and description are set;
\*   (meta.tags || []).map throws when tags is no array; the tags are set;
\*   cells.length throws when data has no cells; renderCell throws on a cell
\*   without source; the body is set; the steps after it (table of contents,
\*   sidebar, icons) throw when an element they use is missing.
tryRender(data, bodyHtml, laterThrows, page) ==
    IF ~data.hasMeta THEN [page EXCEPT !.threw = TRUE]
    ELSE LET p1 == [page EXCEPT !.title = data.title, !.desc = data.description]
         IN IF ~data.tagsIsArray THEN [p1 EXCEPT !.threw = TRUE]
            ELSE LET p2 == [p1 EXCEPT !.tags = TRUE]
                 IN IF ~data.hasCells THEN [p2 EXCEPT !.threw = TRUE]
                    ELSE IF \E i \in DOMAIN data.cells : cellThrows(data.cells[i])
                         THEN [p2 EXCEPT !.threw = TRUE]
                    ELSE LET p3 == [p2 EXCEPT !.body = [kind |-> "cells", html |-> bodyHtml]]
                         IN IF laterThrows THEN [p3 EXCEPT !.threw = TRUE] ELSE p3

\* try { ... } catch { ... } of init after the fetch settled
settle(response, bodyHtml, page) ==
    IF response.kind \in {"rejected", "not ok", "bad json"}
    THEN catchFallback(page)
    ELSE LET p == tryRender(response.data, bodyHtml, response.laterThrows, page)
         IN IF p.threw THEN catchFallback(p) ELSE p

\* fetched data
RC_md == RCell("markdown", TRUE, <<Elem("p", {}), Elem("script", {})>>, <<>>)
RC_code == RCell("code", TRUE, <<>>,
                 <<Processed("text", <<>>),
                   Processed("html", <<Elem("p", {}), Elem("img", {"src", "onerror"})>>)>>)
RC_clean == RCell("code", TRUE, <<>>, <<Processed("html", <<Elem("p", {})>>)>>)
RC_noSource == RCell("markdown", FALSE, <<>>, <<>>)

Data(hasMeta, tagsIsArray, hasCells, cells) ==
    [hasMeta |-> hasMeta, title |-> "T", description |-> "D",
     tagsIsArray |-> tagsIsArray, hasCells |-> hasCells, cells |-> cells]

FetchedData == {Data(TRUE, TRUE, TRUE, <<RC_md, RC_code>>),
                Data(TRUE, TRUE, TRUE, <<RC_clean>>),
                Data(FALSE, TRUE, TRUE, <<>>),
                Data(TRUE, FALSE, TRUE, <<RC_clean>>),
                Data(TRUE, TRUE, FALSE, <<>>),
                Data(TRUE, TRUE, TRUE, <<RC_clean, RC_noSource>>)}

NoData == Data(FALSE, FALSE, FALSE, <<>>)

Responses ==
    {[kind |-> k, data |-> NoData, laterThrows |-> FALSE]
        : k \in {"rejected", "not ok", "bad json"}} \cup
    {[kind |-> "json", data |-> d, laterThrows |-> t]
        : d \in FetchedData, t \in BOOLEAN}

NoResponse == [kind |-> "none", data |-> NoData, laterThrows |-> FALSE]

Scripts == {"notebook-renderer.js", "part_007"}

NbParams == {[present |-> FALSE, value |-> <<>>]} \cup
            {[present |-> TRUE, value |-> v] : v \in SeqsUpTo(ParamChars, MaxParamLen)}

PageLoaded ==
    /\ rPc = "loaded"
    /\ location = ViewPage
    /\ fetches = <<>>
    /\ rResponse = NoResponse
    /\ elTitle = ""
    /\ elDesc = ""
    /\ elTags = FALSE
    /\ elBody = InitialBody

\* the renderer specification is not running
RendererIdle ==
    /\ rScript = "none"
    /\ nbParam = [present |-> FALSE, value |-> <<>>]
    /\ PageLoaded

\* src/src/js/notebook-renderer.js init, up to the await of fetch
initStart ==
    /\ rScript = "notebook-renderer.js"
    /\ rPc = "loaded"
    /\ IF ~nbParam.present \/ nbParam.value = <<>>
       THEN /\ location' = ListingPage
            /\ rPc' = "done"
            /\ UNCHANGED fetches
       ELSE /\ fetches' = Append(fetches, renderedUrl(nbParam.value))
            /\ rPc' = "fetching"
            /\ UNCHANGED location
    /\ UNCHANGED <<rScript, nbParam, rResponse, elTitle, elDesc, elTags, elBody>>

\* src/unnamed/part_007 init, up to the await of fetch
initStart_p007 ==
    /\ rScript = "part_007"
    /\ rPc = "loaded"
    /\ IF ~nbParam.present \/ nbParam.value = <<>> \/ ~slugPattern(nbParam.value)
       THEN /\ location' = ListingPage
            /\ rPc' = "done"
            /\ UNCHANGED fetches
       ELSE /\ fetches' = Append(fetches, renderedUrl(encodeURIComponent(nbParam.value)))
            /\ rPc' = "fetching"
            /\ UNCHANGED location
    /\ UNCHANGED <<rScript, nbParam, rResponse, elTitle, elDesc, elTags, elBody>>

\* the rest of init once the fetch has settled, given the body HTML
initRest(response, bodyHtml) ==
    LET page == settle(response, bodyHtml,
                       [title |-> elTitle, desc |-> elDesc, tags |-> elTags,
                        body |-> elBody, threw |-> FALSE])
    IN /\ rResponse' = response
       /\ elTitle' = page.title
       /\ elDesc' = page.desc
       /\ elTags' = page.tags
       /\ elBody' = page.body
       /\ rPc' = "done"
       /\ UNCHANGED <<rScript, nbParam, location, fetches>>

\* src/src/js/notebook-renderer.js: body.innerHTML = cells.map(renderCell).join('')
initSettled ==
    /\ rScript = "notebook-renderer.js"
    /\ rPc = "fetching"
    /\ \E response \in Responses :
          initRest(response,
                   flatten([i \in DOMAIN response.data.cells |->
                               renderCell(response.data.cells[i])]))

\* src/unnamed/part_007: body.innerHTML = DOMPurify.sanitize(cells.map(...).join(''), ...)
initSettled_p007 ==
    /\ rScript = "part_007"
    /\ rPc = "fetching"
    /\ \E response \in Responses :
          initRest(response,
                   sanitize(flatten([i \in DOMAIN response.data.cells |->
                                        renderCell_p007(response.data.cells[i])]),
                            RenderConfig))

(***************************************************************************)
(* estimateReadTime (build-blog.js 78-83, part_006 123-128, the same text) *)
(***************************************************************************)
\* \s in a regular expression, among the characters of the model
WhiteSpace == SpaceChars \cup {"\n"}

\* .replace(/<[^>]+>/g, ' ') : the leftmost "<" that is followed by at least
\* one character other than ">" and then by a ">" starts a match, which ends
\* at the first ">" after it; the search goes on behind the match
RECURSIVE stripTags(_)
stripTags(s) ==
    LET gts == {j \in DOMAIN s : s[j] = ">"}
        starts == {i \in DOMAIN s : /\ s[i] = "<"
                                    /\ i + 1 \notin gts
                                    /\ \E j \in gts : j > i}
    IN IF starts = {} THEN s
       ELSE LET i == CHOOSE a \in starts : \A b \in starts : a <= b
                after == {k \in gts : k > i}
                j == CHOOSE a \in after : \A b \in after : a <= b
            IN SubSeq(s, 1, i - 1) \o <<" ">> \o stripTags(SubSeq(s, j + 1, Len(s)))

\* .replace(/\s+/g, ' ')
collapseWhiteSpace(s) == replaceRuns(s, WhiteSpace, " ")

\* .trim() of the text
trimText(s) ==
    LET reverse(t) == [i \in DOMAIN t |-> t[Len(t) + 1 - i]]
    IN reverse(dropLeading(reverse(dropLeading(s, WhiteSpace)), WhiteSpace))

\* text.split(' ').length : one piece more than there are separators
splitLength(s) ==
    LET isSeparator(c) == c = " "
    IN Len(SelectSeq(s, isSeparator)) + 1

WordsPerMinute == 230

\* Math.round(a / b) for a >= 0, b > 0 : halves go up
round(a, b) == (2 * a + b) \div (2 * b)

Max(a, b) == IF a >= b THEN a ELSE b

\* estimateReadTime without its Math.max(1, ...)
estimateReadTime_noMax(html) ==
    LET text == trimText(collapseWhiteSpace(stripTags(html)))
        words == splitLength(text)
        minutes == round(words, WordsPerMinute)
    IN ToString(minutes) \o " min read"

estimateReadTime(html) ==
    LET text == trimText(collapseWhiteSpace(stripTags(html)))
        words == splitLength(text)
        minutes == Max(1, round(words, WordsPerMinute))
    IN ToString(minutes) \o " min read"

(***************************************************************************)
(* parseMarkdown and parseInline (notebook-renderer.js 13-90, part_007     *)
(* 33-110, the same code).  A text is a sequence of strings: one string    *)
(* per character of the source, one string for a placeholder and one for   *)
(* each piece of markup the parser writes.  The sources of the model hold  *)
(* no "#", "-", "!", "[" or digit and no "*" before white space at the     *)
(* start of a block, so a block is a placeholder or a paragraph, and of    *)
(* the rules of parseInline those for images and links match nothing.      *)
(***************************************************************************)
\* the character U+0060, which a string of the model cannot hold as itself
Backtick == "U+0060"

Fence == <<Backtick, Backtick, Backtick>>

\* whether pattern starts at position i of s
matchAt(s, i, pattern) ==
    /\ i + Len(pattern) - 1 <= Len(s)
    /\ SubSeq(s, i, i + Len(pattern) - 1) = pattern

Least(S) == CHOOSE a \in S : \A b \in S : a <= b

\* `\x00FENCE${idx}\x00`
Placeholder(idx) == "\\x00FENCE" \o ToString(idx) \o "\\x00"

\* the match of /```(\w*)\n([\s\S]*?)```/ that starts at position i, if any
fenceAt(s, i) ==
    LET nl == (i + 3) + leading(SubSeq(s, i + 3, Len(s)), WordChars)
        closes == {j \in (nl + 1)..Len(s) : matchAt(s, j, Fence)}
    IN IF matchAt(s, i, Fence) /\ nl <= Len(s) /\ s[nl] = "\n" /\ closes # {}
       THEN [ok |-> TRUE,
             lang |-> SubSeq(s, i + 3, nl - 1),
             code |-> SubSeq(s, nl + 1, Least(closes) - 1),
             end |-> Least(closes) + 2]
       ELSE [ok |-> FALSE, lang |-> <<>>, code |-> <<>>, end |-> 0]

\* { lang: lang || 'text', code: code.replace(/\n$/, '') }
fenceEntry(lang, code) ==
    [lang |-> IF lang = <<>> THEN <<"t", "e", "x", "t">> ELSE lang,
     code |-> IF code # <<>> /\ code[Len(code)] = "\n"
              THEN SubSeq(code, 1, Len(code) - 1) ELSE code]

\* md.replace(/```(\w*)\n([\s\S]*?)```/g, ...) : the text with a placeholder
\* for each match, and the fences collected
RECURSIVE extractFences(_, _)
extractFences(s, fences) ==
    LET starts == {i \in DOMAIN s : fenceAt(s, i).ok}
    IN IF starts = {} THEN [text |-> s, fences |-> fences]
       ELSE LET m == fenceAt(s, Least(starts))
                rest == extractFences(SubSeq(s, m.end + 1, Len(s)),
                                      Append(fences, fenceEntry(m.lang, m.code)))
            IN [text |-> SubSeq(s, 1, Least(starts) - 1)
                            \o <<Placeholder(Len(fences))>> \o rest.text,
                fences |-> rest.fences]

\* md.split(/\n{2,}/)
RECURSIVE splitBlocks(_)
splitBlocks(s) ==
    LET seps == {i \in 1..(Len(s) - 1) : s[i] = "\n" /\ s[i + 1] = "\n"}
    IN IF seps = {} THEN <<s>>
       ELSE LET i == Least(seps)
                n == leading(SubSeq(s, i, Len(s)), {"\n"})
            IN <<SubSeq(s, 1, i - 1)>> \o splitBlocks(SubSeq(s, i + n, Len(s)))

escapeHtml(str) ==
    [i \in DOMAIN str |-> CASE str[i] = "&" -> "&amp;"
                            [] str[i] = "<" -> "&lt;"
                            [] str[i] = ">" -> "&gt;"
                            [] str[i] = "\"" -> "&quot;"
                            [] OTHER -> str[i]]

\* a global replace of delim, one or more characters of a line, delim (the
\* middle taken as short as possible) by the middle between two tags:
\* /\*\*(.+?)\*\*/g and /\*(.+?)\*/g
RECURSIVE replaceDelimited(_, _, _, _)
replaceDelimited(s, delim, openTag, closeTag) ==
    LET n == Len(delim)
        closes(i) == {j \in (i + n + 1)..Len(s) :
                         /\ matchAt(s, j, delim)
                         /\ \A k \in (i + n)..(j - 1) : s[k] # "\n"}
        starts == {i \in DOMAIN s : matchAt(s, i, delim) /\ closes(i) # {}}
    IN IF starts = {} THEN s
       ELSE LET i == Least(starts)
                j == Least(closes(i))
            IN SubSeq(s, 1, i - 1) \o <<openTag>> \o SubSeq(s, i + n, j - 1)
                   \o <<closeTag>>
                   \o replaceDelimited(SubSeq(s, j + n, Len(s)), delim, openTag, closeTag)

\* .replace(/`([^`]+)`/g, '<code>$1</code>')
RECURSIVE inlineCode(_)
inlineCode(s) ==
    LET ticks == {j \in DOMAIN s : s[j] = Backtick}
        starts == {i \in ticks : /\ i + 1 <= Len(s)
                                 /\ i + 1 \notin ticks
                                 /\ \E j \in ticks : j > i}
    IN IF starts = {} THEN s
       ELSE LET i == Least(starts)
                j == Least({k \in ticks : k > i})
            IN SubSeq(s, 1, i - 1) \o <<"<code>">> \o SubSeq(s, i + 1, j - 1)
                   \o <<"</code>">> \o inlineCode(SubSeq(s, j + 1, Len(s)))

\* .replace(/\n/g, '<br>')
lineBreaks(s) == [i \in DOMAIN s |-> IF s[i] = "\n" THEN "<br>" ELSE s[i]]

parseInline(text) ==
    lineBreaks(inlineCode(
        replaceDelimited(
            replaceDelimited(text, <<"*", "*">>, "<strong>", "</strong>"),
            <<"*">>, "<em>", "</em>")))

\* the markup of a restored fence
codeBlock(f) ==
    <<"<div class=\"code-block\"><div class=\"code-block-header\"><span class=\"code-block-lang\">">>
        \o escapeHtml(f.lang)
        \o <<"</span></div><pre><code>">>
        \o escapeHtml(f.code)
        \o <<"</code></pre></div>">>

\* the callback of blocks.map(...)
renderBlock(rawBlock, fences) ==
    LET block == trimText(rawBlock)
        indexes == {idx \in 0..(Len(fences) - 1) : block = <<Placeholder(idx)>>}
    IN IF block = <<>> THEN <<>>
       ELSE IF indexes # {} THEN codeBlock(fences[Least(indexes) + 1])
       ELSE <<"<p>">> \o parseInline(block) \o <<"</p>">>

\* .join('\n')
RECURSIVE join(_, _)
join(seqs, sep) ==
    IF seqs = <<>> THEN <<>>
    ELSE IF Len(seqs) = 1 THEN seqs[1]
    ELSE seqs[1] \o <<sep>> \o join(Tail(seqs), sep)

parseMarkdown(md) ==
    LET extracted == extractFences(md, <<>>)
        blocks == splitBlocks(extracted.text)
    IN join([b \in DOMAIN blocks |-> renderBlock(blocks[b], extracted.fences)], "\n")

(***************************************************************************)
(* Specification of slugify as a pure function: a title is drawn, slugify  *)
(* is applied, then applied again to its own result.                       *)
(***************************************************************************)
TitleChars == {"a", "A", "1", " ", "-", "!"}

\* A title is a run of letters followed by a short tail; the run lengths put
\* the tail before, on and after the truncation point.
PadLens == {0} \cup ((MaxSlugLen - 3)..MaxSlugLen)

\* the title of the end-to-end scenario
HelloWorld2024 ==
    <<"H", "e", "l", "l", "o", ",", " ", "W", "o", "r", "l", "d", "!", " ",
      "2", "0", "2", "4">>

Titles ==
    {Rep("a", n) \o t : n \in PadLens, t \in SeqsUpTo(TitleChars, MaxTail)}
        \cup {HelloWorld2024}

InitSlugify ==
    /\ sTitle \in Titles
    /\ sSlug = <<>>
    /\ sReslug = <<>>
    /\ sPc = "title"
    /\ BlogInit
    /\ NbInit
    /\ NetIdle
    /\ RendererIdle
    /\ FnIdle

applySlugify ==
    /\ sPc = "title"
    /\ sSlug' = slugify(sTitle)
    /\ sPc' = "slug"
    /\ UNCHANGED <<sTitle, sReslug, blogVars, nbVars, rVars, fnVars, netVars>>

reapplySlugify ==
    /\ sPc = "slug"
    /\ sReslug' = slugify(sSlug)
    /\ sPc' = "reslug"
    /\ UNCHANGED <<sTitle, sSlug, blogVars, nbVars, rVars, fnVars, netVars>>

NextSlugify == applySlugify \/ reapplySlugify

SpecSlugify == InitSlugify /\ [][NextSlugify]_vars

(***************************************************************************)
(* Specifications of the ingesters and of the renderer                     *)
(***************************************************************************)
InitBlog == BlogInit /\ SlugIdle /\ NbInit /\ NetIdle /\ RendererIdle /\ FnIdle

NextBlog ==
    \/ buildBlogStart /\ UNCHANGED <<slugVars, nbVars, rVars, fnVars, netVars>>
    \/ buildBlogFetchFailed /\ UNCHANGED <<slugVars, nbVars, rVars, fnVars, netVars>>
    \/ buildBlog /\ UNCHANGED <<slugVars, nbVars, rVars, fnVars, netVars>>
    \/ buildBlog_p006 /\ UNCHANGED <<slugVars, nbVars, rVars, fnVars, netVars>>

SpecBlog == InitBlog /\ [][NextBlog]_vars

InitNotebooks == NbInit /\ NetIdle /\ SlugIdle /\ BlogInit /\ RendererIdle /\ FnIdle

NextNotebooks ==
    \/ buildNotebooksNoDir /\ UNCHANGED <<slugVars, blogVars, rVars, fnVars, netVars>>
    \/ buildNotebooks /\ UNCHANGED <<slugVars, blogVars, rVars, fnVars, netVars>>

SpecNotebooks == InitNotebooks /\ [][NextNotebooks]_vars

InitRenderer ==
    /\ rScript \in Scripts
    /\ nbParam \in NbParams
    /\ PageLoaded
    /\ SlugIdle
    /\ BlogInit
    /\ NbInit
    /\ NetIdle
    /\ FnIdle

NextRenderer ==
    \/ initStart /\ UNCHANGED <<slugVars, blogVars, nbVars, fnVars, netVars>>
    \/ initStart_p007 /\ UNCHANGED <<slugVars, blogVars, nbVars, fnVars, netVars>>
    \/ initSettled /\ UNCHANGED <<slugVars, blogVars, nbVars, fnVars, netVars>>
    \/ initSettled_p007 /\ UNCHANGED <<slugVars, blogVars, nbVars, fnVars, netVars>>

SpecRenderer == InitRenderer /\ [][NextRenderer]_vars

(***************************************************************************)
(* Specification of the fetches: one run of the feed ingester with the     *)
(* transport of fetchURL, or one page load of the renderer.  The server is *)
(* free in what it answers and when; the one thing the runtime guarantees  *)
(* is that an armed idle timer of a socket that stays open fires.          *)
(***************************************************************************)
InitFetch ==
    /\ BlogInit
    /\ NetIdle
    /\ SlugIdle
    /\ NbInit
    /\ FnIdle
    /\ \/ RendererIdle
       \/ /\ rScript \in Scripts
          /\ nbParam \in NbParams
          /\ PageLoaded

NextFetch ==
    \/ rScript = "none" /\ fetchStart /\ UNCHANGED <<slugVars, nbVars, rVars, fnVars>>
    \/ respondRedirect /\ UNCHANGED <<slugVars, nbVars, rVars, fnVars>>
    \/ respondNotOk /\ UNCHANGED <<slugVars, nbVars, rVars, fnVars>>
    \/ requestError /\ UNCHANGED <<slugVars, nbVars, rVars, fnVars>>
    \/ respondOk /\ UNCHANGED <<slugVars, nbVars, rVars, fnVars>>
    \/ responseEnd /\ UNCHANGED <<slugVars, nbVars, rVars, fnVars>>
    \/ responseAborted /\ UNCHANGED <<slugVars, nbVars, rVars, fnVars>>
    \/ \E url \in Urls :
          requestTimeout(url) /\ UNCHANGED <<slugVars, nbVars, rVars, fnVars>>
    \/ initStart /\ UNCHANGED <<slugVars, blogVars, nbVars, fnVars, netVars>>
    \/ initStart_p007 /\ UNCHANGED <<slugVars, blogVars, nbVars, fnVars, netVars>>
    \/ initSettled /\ UNCHANGED <<slugVars, blogVars, nbVars, fnVars, netVars>>
    \/ initSettled_p007 /\ UNCHANGED <<slugVars, blogVars, nbVars, fnVars, netVars>>

SpecFetch == InitFetch /\ [][NextFetch]_vars

TimerFires(url) ==
    requestTimeout(url) /\ UNCHANGED <<slugVars, nbVars, rVars, fnVars>>

FairSpecFetch ==
    SpecFetch /\ \A url \in Urls : WF_vars(TimerFires(url))

(***************************************************************************)
(* Specification of validateSlug as a pure function                        *)
(***************************************************************************)
SlugArgs ==
    {JsUndefined, JsNull, JsNumber(<<"0">>), JsNumber(<<"1">>)}
        \cup {JsString(s) : s \in SeqsUpTo(ParamChars, MaxParamLen)}

InitValidateSlug ==
    /\ fnName = "validateSlug"
    /\ fnArg \in SlugArgs
    /\ fnRet = NotCalled
    /\ SlugIdle
    /\ BlogInit
    /\ NbInit
    /\ NetIdle
    /\ RendererIdle

callValidateSlug ==
    /\ fnName = "validateSlug"
    /\ ~fnRet.returned
    /\ fnRet' = Returned(validateSlug(fnArg))
    /\ UNCHANGED <<fnName, fnArg, slugVars, blogVars, nbVars, rVars, netVars>>

NextValidateSlug == callValidateSlug

SpecValidateSlug == InitValidateSlug /\ [][NextValidateSlug]_vars

(***************************************************************************)
(* Specification of parseFilename as a pure function                       *)
(***************************************************************************)
MaxStemLen == 2

StemChars == {"a", "_", "."}

Txt == <<".", "t", "x", "t">>

\* the date prefix, the prefix without its underscore and with a one-digit
\* month, and no prefix
NamePrefixes ==
    {<<>>, D_jan \o <<"_">>, D_feb \o <<"_">>, D_jan,
     <<"2", "0", "2", "4", "-", "1", "-", "0", "1", "_">>}

NameExts == {Ipynb, Txt, <<>>}

\* readdirSync returns neither the empty name nor "." nor ".."
FileNames ==
    {n \in {p \o s \o e : p \in NamePrefixes,
                           s \in SeqsUpTo(StemChars, MaxStemLen),
                           e \in NameExts} :
        \E i \in DOMAIN n : n[i] # "."}

InitParseFilename ==
    /\ fnName = "parseFilename"
    /\ fnArg \in FileNames
    /\ fnRet = NotCalled
    /\ SlugIdle
    /\ BlogInit
    /\ NbInit
    /\ NetIdle
    /\ RendererIdle

callParseFilename ==
    /\ fnName = "parseFilename"
    /\ ~fnRet.returned
    /\ fnRet' = Returned(parseFilename(fnArg))
    /\ UNCHANGED <<fnName, fnArg, slugVars, blogVars, nbVars, rVars, netVars>>

NextParseFilename == callParseFilename

SpecParseFilename == InitParseFilename /\ [][NextParseFilename]_vars

(***************************************************************************)
(* Specification of parseFrontmatter as a pure function: the block holds   *)
(* one line key: value whose value is the text of a JSON array, or a        *)
(* bracket-delimited text that is no JSON, and at most one other line.      *)
(***************************************************************************)
MaxArrayLen == 2

\* elements of the arrays: strings (one with the characters that end an
\* array inside it), a number, an empty and a non-empty array
ArrayElems ==
    {JsString(<<"a">>), JsString(<<"]", ",">>), JsNumber(<<"1">>),
     JsArray(<<>>), JsArray(<<JsString(<<"b">>)>>)}

Arrays == {JsArray(items) : items \in SeqsUpTo(ArrayElems, MaxArrayLen)}

\* the JSON text of a value: "compact" ["a","b"], "spaced" ["a", "b"],
\* "padded" [ "a" , "b" ]
JsonStyles == {"compact", "spaced", "padded"}

RECURSIVE stringify(_, _), joinItems(_, _)
stringify(v, style) ==
    IF v.type = "string" THEN <<Quote>> \o v.chars \o <<Quote>>
    ELSE IF v.type = "number" THEN v.chars
    ELSE LET pad == IF style = "padded" THEN <<" ">> ELSE <<>>
         IN IF v.items = <<>> THEN <<"[">> \o pad \o <<"]">>
            ELSE <<"[">> \o pad \o joinItems(v.items, style) \o pad \o <<"]">>

joinItems(items, style) ==
    LET sep == CASE style = "compact" -> <<",">>
                 [] style = "spaced" -> <<",", " ">>
                 [] OTHER -> <<" ", ",", " ">>
    IN IF Len(items) = 1 THEN stringify(items[1], style)
       ELSE stringify(Head(items), style) \o sep \o joinItems(Tail(items), style)

\* bracket-delimited texts that are no JSON: [a] [1,] [,] [1 1] ["a] [[1]
\* [1]] ['a'] [01]
MalformedArrays ==
    {<<"[", "a", "]">>, <<"[", "1", ",", "]">>, <<"[", ",", "]">>,
     <<"[", "1", " ", "1", "]">>, <<"[", Quote, "a", "]">>,
     <<"[", "[", "1", "]">>, <<"[", "1", "]", "]">>,
     <<"[", "'", "a", "'", "]">>, <<"[", "0", "1", "]">>}

FrontmatterKeys == {<<"t", "a", "g", "s">>, <<"k", "_", "1">>}

\* what stands between the key and the value
KeySeparators == {<<":">>, <<":", " ">>, <<" ", ":", " ", " ">>}

TitleLine == <<"t", "i", "t", "l", "e", ":", " ", Quote, "T", Quote>>

\* the lines of the first cell's source: the block with the line key: value,
\* alone or with the title line before or after it
frontmatterSource(key, sep, value, trail, other) ==
    LET line == key \o sep \o value \o trail
    IN <<Dashes>>
         \o (CASE other = "before" -> <<TitleLine, line>>
               [] other = "after" -> <<line, TitleLine>>
               [] OTHER -> <<line>>)
         \o <<Dashes, <<"b", "e", "s", "t">>>>

\* an argument: the source, and the key, the value text and the array the
\* source was written from
FrontmatterArgs ==
    {[source |-> frontmatterSource(key, sep, stringify(a, style), trail, other),
      key |-> key, kind |-> "array", raw |-> stringify(a, style), array |-> a] :
        key \in FrontmatterKeys, sep \in KeySeparators, a \in Arrays,
        style \in JsonStyles, trail \in {<<>>, <<" ">>},
        other \in {"none", "before", "after"}}
    \cup
    {[source |-> frontmatterSource(key, sep, m, trail, other),
      key |-> key, kind |-> "malformed", raw |-> m, array |-> JsNull] :
        key \in FrontmatterKeys, sep \in KeySeparators, m \in MalformedArrays,
        trail \in {<<>>, <<" ">>}, other \in {"none", "before", "after"}}

InitParseFrontmatter ==
    /\ fnName = "parseFrontmatter"
    /\ fnArg \in FrontmatterArgs
    /\ fnRet = NotCalled
    /\ SlugIdle
    /\ BlogInit
    /\ NbInit
    /\ NetIdle
    /\ RendererIdle

callParseFrontmatter ==
    /\ fnName = "parseFrontmatter"
    /\ ~fnRet.returned
    /\ fnRet' = Returned(parseFrontmatter(fnArg.source))
    /\ UNCHANGED <<fnName, fnArg, slugVars, blogVars, nbVars, rVars, netVars>>

NextParseFrontmatter == callParseFrontmatter

SpecParseFrontmatter == InitParseFrontmatter /\ [][NextParseFrontmatter]_vars

(***************************************************************************)
(* Specification of the outputs of one code cell: the outputs are drawn,   *)
(* the map and filter of processNotebook are applied to them               *)
(***************************************************************************)
MaxOutputs == 2

OutputHtmls == {<<>>, H_p, R_onerror}

Outputs ==
    {Output(t, FALSE, <<>>, FALSE) : t \in {"stream", "error", "update_display_data"}}
        \cup {Output("execute_result", png, html, plain) :
                 png \in BOOLEAN, html \in OutputHtmls, plain \in BOOLEAN}
        \cup {Output("display_data", TRUE, H_p, TRUE),
              Output("display_data", FALSE, <<>>, FALSE)}

InitProcessOutputs ==
    /\ fnName = "processOutputs"
    /\ fnArg \in SeqsUpTo(Outputs, MaxOutputs)
    /\ fnRet = NotCalled
    /\ SlugIdle
    /\ BlogInit
    /\ NbInit
    /\ NetIdle
    /\ RendererIdle

callProcessOutputs ==
    /\ fnName = "processOutputs"
    /\ ~fnRet.returned
    /\ fnRet' = Returned(processOutputs(fnArg))
    /\ UNCHANGED <<fnName, fnArg, slugVars, blogVars, nbVars, rVars, netVars>>

NextProcessOutputs == callProcessOutputs

SpecProcessOutputs == InitProcessOutputs /\ [][NextProcessOutputs]_vars

(***************************************************************************)
(* Specification of estimateReadTime as a pure function: the content is a  *)
(* run of one-letter words followed by a short tail of letters, white      *)
(* space and angle brackets; the run lengths put the word count on both    *)
(* sides of the points where the rounded quotient changes                  *)
(***************************************************************************)
MaxHtmlTail == 3

HtmlChars == {"w", " ", "\n", "<", ">"}

PadWords == {0, 114, 115, 344, 345}

wordRun(n) == [i \in 1..(2 * n) |-> IF i % 2 = 1 THEN "w" ELSE " "]

Htmls == {wordRun(n) \o t : n \in PadWords, t \in SeqsUpTo(HtmlChars, MaxHtmlTail)}

InitEstimateReadTime ==
    /\ fnName = "estimateReadTime"
    /\ fnArg \in Htmls
    /\ fnRet = NotCalled
    /\ SlugIdle
    /\ BlogInit
    /\ NbInit
    /\ NetIdle
    /\ RendererIdle

callEstimateReadTime ==
    /\ fnName = "estimateReadTime"
    /\ ~fnRet.returned
    /\ fnRet' = Returned(estimateReadTime(fnArg))
    /\ UNCHANGED <<fnName, fnArg, slugVars, blogVars, nbVars, rVars, netVars>>

NextEstimateReadTime == callEstimateReadTime

SpecEstimateReadTime == InitEstimateReadTime /\ [][NextEstimateReadTime]_vars

(***************************************************************************)
(* Specification of parseMarkdown as a pure function: a source is made of  *)
(* up to MaxParts parts, each a letter, a newline, an emphasised "<", the  *)
(* opening line of a fence or three backticks                              *)
(***************************************************************************)
MaxParts == 5

Parts == {<<"a">>, <<"\n">>, <<"*", "<", "*">>, <<Backtick, Backtick, Backtick, "\n">>, Fence}

Markdowns == {flatten(parts) : parts \in SeqsUpTo(Parts, MaxParts)}

InitParseMarkdown ==
    /\ fnName = "parseMarkdown"
    /\ fnArg \in Markdowns
    /\ fnRet = NotCalled
    /\ SlugIdle
    /\ BlogInit
    /\ NbInit
    /\ NetIdle
    /\ RendererIdle

callParseMarkdown ==
    /\ fnName = "parseMarkdown"
    /\ ~fnRet.returned
    /\ fnRet' = Returned(parseMarkdown(fnArg))
    /\ UNCHANGED <<fnName, fnArg, slugVars, blogVars, nbVars, rVars, netVars>>

NextParseMarkdown == callParseMarkdown

SpecParseMarkdown == InitParseMarkdown /\ [][NextParseMarkdown]_vars

(***************************************************************************)
(* Specification of processNotebook as a pure function of the notebook:    *)
(* the first cell is a frontmatter block, a block without its closing      *)
(* line, a lone rule, a block after a blank line or a heading, and up to   *)
(* MaxRestCells cells follow it                                            *)
(***************************************************************************)
MaxRestCells == 2

FirstSources ==
    {<<"---", "title: T", "---">>, <<"---", "title: T">>, <<"---">>,
     <<"", "---", "title: T", "---">>, <<"# A">>}

RestCells ==
    {Cell("markdown", <<"# B">>, <<>>), Cell("code", <<"1">>, <<>>),
     Cell("raw", <<"x">>, <<>>)}

Notebooks ==
    {NB_badJson, NB_noCells} \cup
    {[json |-> TRUE, cells |-> <<Cell("markdown", first, <<>>)>> \o rest] :
        first \in FirstSources, rest \in SeqsUpTo(RestCells, MaxRestCells)}

InitProcessNotebook ==
    /\ fnName = "processNotebook"
    /\ fnArg \in Notebooks
    /\ fnRet = NotCalled
    /\ SlugIdle
    /\ BlogInit
    /\ NbInit
    /\ NetIdle
    /\ RendererIdle

callProcessNotebook ==
    /\ fnName = "processNotebook"
    /\ ~fnRet.returned
    /\ fnRet' = Returned(processNotebook(N_b, fnArg))
    /\ UNCHANGED <<fnName, fnArg, slugVars, blogVars, nbVars, rVars, netVars>>

NextProcessNotebook == callProcessNotebook

SpecProcessNotebook == InitProcessNotebook /\ [][NextProcessNotebook]_vars

(***************************************************************************)
(* Claims about the feed ingester                                          *)
(***************************************************************************)
\* C1: if fetching the feed fails (timeout, non-200 status, connection
\* error), build writes [] as the index _posts.json, writes no per-post file
\* and returns normally without throwing.
C1_FetchFailureWritesEmptyIndex ==
    [][(blogPc = "fetching" /\ blogFetch' \in RejectReasons)
         => /\ blogIndexFile' = IndexFile(<<>>)
            /\ blogRenderedDir' = blogRenderedDir
            /\ blogWritten' = {}
            /\ blogResult' = "returned"
            /\ blogPc' = "idle"]_vars

\* a failed run that follows a run which had written posts
C1_Witness ==
    /\ blogFetch = "Timeout"
    /\ blogResult = "returned"
    /\ blogIndexFile = IndexFile(<<>>)
    /\ DOMAIN blogRenderedDir # {}

\* the item of the feed whose post the loop wrote last to <slug>.json
lastWriter(items, slug) ==
    LET writers == {i \in DOMAIN items :
                      /\ ~(items[i].pubDate # "" /\ invalidDate(items[i].pubDate))
                      /\ items[i].title # <<>>
                      /\ slugify(items[i].title) = slug}
    IN items[CHOOSE i \in writers : \A j \in writers : j <= i]

\* what the claim allows beyond DOMPurify's defaults
ClaimedFeedConfig == [ADD_TAGS |-> {"iframe"},
                      ADD_ATTR |-> {"allow", "frameborder", "target"}]

\* C5: the content the feed ingester writes to a per-post file is the
\* sanitizer's output on the raw content:encoded text, never the raw text;
\* beyond the default set only iframes with allow/frameborder/target pass.
C5_StoredContentIsSanitized ==
    (blogPc = "idle" /\ blogFetch = "ok") =>
        \A slug \in blogWritten :
            blogRenderedDir[slug].content =
                sanitize(lastWriter(blogFeed, slug).content, ClaimedFeedConfig)

\* C8: the index written by the feed ingester never holds two entries with
\* the same slug, also when two distinct titles slugify to the same value.
C8_IndexSlugsUnique ==
    \A i, j \in DOMAIN blogIndexFile.entries :
        i # j => blogIndexFile.entries[i].slug # blogIndexFile.entries[j].slug

\* C9: after any sequence of build invocations the generated output holds
\* only the items of the most recent run: a per-item file of an earlier run
\* whose item the latest run did not produce is not left, and every index
\* entry is an item of the latest run.
C9_OutputReflectsLatestRunOnly ==
    (blogPc = "idle" /\ blogResult = "returned") =>
        /\ DOMAIN blogRenderedDir \subseteq blogWritten
        /\ {blogIndexFile.entries[i].slug : i \in DOMAIN blogIndexFile.entries}
               \subseteq blogWritten

\* C14: a feed item whose extracted title is empty, or whose title slugifies
\* to the empty string, is dropped: no per-post file is written and no index
\* entry is added for it, and the other items are unaffected (each of them
\* has its file and its index entry).
C14_EmptyTitleOrSlugDropped ==
    (blogPc = "idle" /\ blogFetch = "ok") =>
        LET items == blogFeed
            entries == blogIndexFile.entries
            dropped(i) == items[i].title = <<>> \/ slugify(items[i].title) = <<>>
            failed(i) == items[i].pubDate # "" /\ invalidDate(items[i].pubDate)
            kept == {i \in DOMAIN items : ~dropped(i) /\ ~failed(i)}
        IN /\ \A k \in DOMAIN entries :
                 entries[k].title # <<>> /\ entries[k].slug # <<>>
           /\ <<>> \notin blogWritten
           /\ Len(entries) = Cardinality(kept)
           /\ blogWritten = {slugify(items[i].title) : i \in kept}
           /\ \A i \in kept :
                 /\ \E k \in DOMAIN entries :
                       /\ entries[k].title = items[i].title
                       /\ entries[k].slug = slugify(items[i].title)
                       /\ entries[k].date = toISODate(items[i].pubDate)
                 /\ slugify(items[i].title) \in DOMAIN blogRenderedDir

\* "!" slugifies to the empty slug and is dropped, "a b" after it is written
C14_Witness ==
    /\ blogPc = "idle"
    /\ blogFetch = "ok"
    /\ Len(blogFeed) = 2
    /\ blogFeed[1].title = T_bang
    /\ blogFeed[2].title = T_ab
    /\ Len(blogIndexFile.entries) = 1
    /\ blogIndexFile.entries[1].slug = <<"a", "-", "b">>
    /\ DOMAIN blogRenderedDir = {<<"a", "-", "b">>}

\* C19: the index written by a successful feed ingestion run is ordered by
\* date descending: of two consecutive entries the earlier one's date is
\* greater than or equal to the later one's, and empty dates come last.
C19_IndexNewestFirst ==
    (blogPc = "idle" /\ blogFetch = "ok") =>
        LET entries == blogIndexFile.entries
        IN \A i \in 1..(Len(entries) - 1) :
              /\ entries[i].date >= entries[i + 1].date
              /\ entries[i].date = 0 => entries[i + 1].date = 0

\* the feed lists an item without pubDate before an item of January: the
\* index lists the January item first
C19_Witness ==
    /\ blogPc = "idle"
    /\ blogFetch = "ok"
    /\ Len(blogFeed) = 2
    /\ blogFeed[1] = Item(T_b, "", H_onerror)
    /\ blogFeed[2] = Item(T_ab, Jan, H_script)
    /\ Len(blogIndexFile.entries) = 2
    /\ blogIndexFile.entries[1].date = 20240101
    /\ blogIndexFile.entries[2].date = 0

\* C21: an exception raised while one feed item is processed (an unparseable
\* published date) skips only that item: every other item with a non-empty
\* title and slug still gets its per-post file and its index entry, the item
\* that threw gets none, and the index is still written.
C21_ItemExceptionSkipsItemOnly ==
    (/\ blogPc = "idle"
     /\ blogFetch = "ok"
     /\ \E i \in DOMAIN blogFeed : invalidDate(blogFeed[i].pubDate)) =>
        LET entries == blogIndexFile.entries
            good == {i \in DOMAIN blogFeed :
                       /\ ~invalidDate(blogFeed[i].pubDate)
                       /\ blogFeed[i].title # <<>>
                       /\ slugify(blogFeed[i].title) # <<>>}
        IN /\ blogResult = "returned"
           /\ blogIndexFile.exists
           /\ Len(entries) = Cardinality(good)
           /\ \A i \in good :
                 /\ \E k \in DOMAIN entries :
                       /\ entries[k].slug = slugify(blogFeed[i].title)
                       /\ entries[k].title = blogFeed[i].title
                 /\ slugify(blogFeed[i].title) \in blogWritten
                 /\ slugify(blogFeed[i].title) \in DOMAIN blogRenderedDir

\* the first item has the pubDate "soon", the second one is written
C21_Witness ==
    /\ blogPc = "idle"
    /\ blogFetch = "ok"
    /\ Len(blogFeed) = 2
    /\ blogFeed[1] = Item(T_b, "soon", H_p)
    /\ blogFeed[2].title = T_ab
    /\ Len(blogIndexFile.entries) = 1
    /\ blogIndexFile.entries[1].slug = <<"a", "-", "b">>
    /\ blogWritten = {<<"a", "-", "b">>}

(***************************************************************************)
(* Claims about the notebook ingester                                      *)
(***************************************************************************)
notebookNames == {f \in DOMAIN notebooksDir.files : endsWith(f, Ipynb)}

\* C2: a notebook file whose contents fail JSON parsing is skipped and the
\* build continues: the index written holds exactly one entry for each
\* remaining valid file (a file that parses and has cells) and none for any
\* other file; three files with one invalid give exactly two entries.
C2_InvalidJsonSkipped ==
    (nbResult # "none" /\ notebooksDir.exists) =>
        LET entries == nbIndexFile.entries
            valid(f) == notebooksDir.files[f].json /\ notebooksDir.files[f].cells # <<>>
        IN /\ nbResult = "returned"
           /\ nbIndexFile.exists
           /\ \A i \in DOMAIN entries : entries[i].filename \in notebookNames
           /\ \A f \in notebookNames :
                 Cardinality({i \in DOMAIN entries : entries[i].filename = f})
                     = IF valid(f) THEN 1 ELSE 0

\* three notebooks, the second one processed is no JSON, two entries written
C2_Witness ==
    /\ nbResult = "returned"
    /\ notebooksDir.exists
    /\ DOMAIN notebooksDir.files = {N_jan_a, N_feb_a, N_b}
    /\ notebooksDir.files[N_b] = NB_plain
    /\ notebooksDir.files[N_feb_a] = NB_badJson
    /\ notebooksDir.files[N_jan_a] = NB_html
    /\ Len(nbIndexFile.entries) = 2

\* the notebook file whose rendered data the last run left in <slug>.json:
\* files are processed in descending order, so the smallest name wrote last
nbWriter(slug) ==
    LET writers == {f \in notebookNames :
                      /\ notebooksDir.files[f].json
                      /\ notebooksDir.files[f].cells # <<>>
                      /\ parseFilename(f).slug = slug}
    IN CHOOSE f \in writers : \A g \in writers : g = f \/ lexLess(f, g)

\* the raw text/html data of a notebook's outputs that are classified html
RECURSIVE rawHtmlOfOutputs(_)
rawHtmlOfOutputs(outputs) ==
    IF outputs = <<>> THEN <<>>
    ELSE LET o == Head(outputs)
         IN (IF /\ o.output_type \in {"execute_result", "display_data"}
                /\ ~o.png
                /\ o.html # <<>>
             THEN <<o.html>> ELSE <<>>) \o rawHtmlOfOutputs(Tail(outputs))

RECURSIVE rawHtmlOfCells(_)
rawHtmlOfCells(cells) ==
    IF cells = <<>> THEN <<>>
    ELSE (IF Head(cells).cell_type = "code"
          THEN rawHtmlOfOutputs(Head(cells).outputs) ELSE <<>>)
             \o rawHtmlOfCells(Tail(cells))

\* the html of the outputs of type html of a rendered notebook
RECURSIVE htmlOfOutputs(_)
htmlOfOutputs(outputs) ==
    IF outputs = <<>> THEN <<>>
    ELSE (IF Head(outputs).type = "html" THEN <<Head(outputs).html>> ELSE <<>>)
             \o htmlOfOutputs(Tail(outputs))

RECURSIVE htmlOfCells(_)
htmlOfCells(cells) ==
    IF cells = <<>> THEN <<>>
    ELSE htmlOfOutputs(Head(cells).outputs) \o htmlOfCells(Tail(cells))

\* C7: every output of type html in a NotebookDocument written by the
\* notebook ingester is the sanitizer's output on the notebook's raw
\* text/html data: an onerror attribute is removed, the safe markup around
\* it is kept, and raw text/html is never written unsanitized.
C7_HtmlOutputsAreSanitized ==
    /\ \A slug \in DOMAIN nbRenderedDir :
          LET htmls == htmlOfCells(nbRenderedDir[slug].cells)
          IN \A i \in DOMAIN htmls : \A k \in DOMAIN htmls[i] :
                /\ "onerror" \notin htmls[i][k].attrs
                /\ htmls[i][k].tag # "script"
    /\ (nbResult = "returned" /\ notebooksDir.exists) =>
          \A slug \in nbWritten :
              LET src == notebooksDir.files[nbWriter(slug)].cells
                  body == IF hasFrontmatter(src) THEN Tail(src) ELSE src
                  raw == rawHtmlOfCells(body)
                  htmls == htmlOfCells(nbRenderedDir[slug].cells)
              IN /\ Len(htmls) = Len(raw)
                 /\ \A i \in DOMAIN raw :
                       /\ htmls[i] = sanitize(raw[i], NoConfig)
                       /\ \A t \in DefaultAllowedTags :
                             Len(SelectSeq(htmls[i], LAMBDA e : e.tag = t))
                                 = Len(SelectSeq(raw[i], LAMBDA e : e.tag = t))

\* a.json written from a notebook whose text/html output has an img with
\* onerror: the img is kept with its src, the onerror is gone
C7_Witness ==
    /\ nbResult = "returned"
    /\ notebooksDir.exists
    /\ <<"a">> \in nbWritten
    /\ notebooksDir.files[nbWriter(<<"a">>)] = NB_html
    /\ htmlOfCells(nbRenderedDir[<<"a">>].cells)
           = <<<<Elem("p", {}), Elem("img", {"src"})>>>>

\* the notebook yields zero cells after processing: its cells array is empty
\* or holds no markdown or code cell once the frontmatter cell is removed
zeroCells(file) ==
    /\ file.json
    /\ LET body == IF file.cells # <<>> /\ hasFrontmatter(file.cells)
                   THEN Tail(file.cells) ELSE file.cells
       IN \A i \in DOMAIN body : body[i].cell_type \notin {"markdown", "code"}

\* C17: a notebook that yields zero cells after processing is skipped by the
\* notebook ingester: no <slug>.json file is written and no index entry is
\* added for it.
C17_ZeroCellNotebookSkipped ==
    (nbResult = "returned" /\ notebooksDir.exists) =>
        \A f \in notebookNames :
            zeroCells(notebooksDir.files[f]) =>
                /\ \A i \in DOMAIN nbIndexFile.entries :
                      nbIndexFile.entries[i].filename # f
                /\ \A slug \in nbWritten :
                      nbRenderedDir[slug].meta.filename # f

\* C18: when the notebook source directory does not exist, build writes the
\* empty index [], writes no per-notebook file and returns without error.
C18_MissingDirWritesEmptyIndex ==
    [][~notebooksDir'.exists =>
          /\ nbIndexFile' = IndexFile(<<>>)
          /\ nbRenderedDir' = nbRenderedDir
          /\ nbWritten' = {}
          /\ nbResult' = "returned"]_nbVars

\* the directory is missing in a run that follows a run which wrote notebooks
C18_Witness ==
    /\ ~notebooksDir.exists
    /\ nbResult = "returned"
    /\ nbIndexFile = IndexFile(<<>>)
    /\ DOMAIN nbRenderedDir # {}

\* C20: the notebook index holds one entry per valid notebook file (a file
\* that parses and yields at least one cell), the entries are ordered by
\* source filename descending, and skipping an invalid file leaves the
\* remaining entries in that order.
C20_IndexByFilenameDescending ==
    (nbResult = "returned" /\ notebooksDir.exists) =>
        LET entries == nbIndexFile.entries
        IN /\ \A i \in 1..(Len(entries) - 1) :
                 lexLess(entries[i + 1].filename, entries[i].filename)
           /\ \A i \in DOMAIN entries :
                 /\ entries[i].filename \in notebookNames
                 /\ notebooksDir.files[entries[i].filename].json
           /\ \A f \in notebookNames :
                 (notebooksDir.files[f].json /\ ~zeroCells(notebooksDir.files[f]))
                     => \E i \in DOMAIN entries : entries[i].filename = f

\* b.ipynb has no cells and is skipped: the February notebook is listed
\* before the January one
C20_Witness ==
    /\ nbResult = "returned"
    /\ notebooksDir.exists
    /\ DOMAIN notebooksDir.files = {N_jan_a, N_feb_a, N_b}
    /\ notebooksDir.files[N_b] = NB_noCells
    /\ notebooksDir.files[N_feb_a] = NB_html
    /\ notebooksDir.files[N_jan_a] = NB_plain
    /\ Len(nbIndexFile.entries) = 2
    /\ nbIndexFile.entries[1].filename = N_feb_a
    /\ nbIndexFile.entries[2].filename = N_jan_a

\* C28: after a run of the notebook ingester the rendered file <slug>.json of
\* every index entry holds the metadata of that entry, the same date and the
\* same source filename, also when two notebook files share a slug and
\* differ in their date prefix.
C28_RenderedFileMatchesEntry ==
    nbResult = "returned" =>
        \A i \in DOMAIN nbIndexFile.entries :
            LET entry == nbIndexFile.entries[i]
            IN /\ entry.slug \in DOMAIN nbRenderedDir
               /\ nbRenderedDir[entry.slug].meta.date = entry.date
               /\ nbRenderedDir[entry.slug].meta.filename = entry.filename

(***************************************************************************)
(* Claims about the client renderer                                        *)
(***************************************************************************)
\* C3: when the nb query parameter is missing, empty or does not match
\* [a-zA-Z0-9_-]+ in full, init redirects to the listing page and issues no
\* fetch; a fetch of /tutorials/_rendered/<slug>.json is only ever issued
\* with a slug that matches the pattern.
C3_InvalidSlugRedirectsWithoutFetch ==
    /\ (rPc # "loaded" /\ ~(nbParam.present /\ slugPattern(nbParam.value)))
          => (location = ListingPage /\ fetches = <<>>)
    /\ \A i \in DOMAIN fetches : slugPattern(fetches[i].name)

\* the fetch did not deliver a document that init renders to the end
renderFailed(response) ==
    \/ response.kind \in {"rejected", "not ok", "bad json"}
    \/ /\ response.kind = "json"
       /\ \/ ~response.data.hasMeta
          \/ ~response.data.tagsIsArray
          \/ ~response.data.hasCells
          \/ \E i \in DOMAIN response.data.cells : cellThrows(response.data.cells[i])
          \/ response.laterThrows

\* C4: whenever the fetch rejects, returns a non-OK status, yields
\* unparseable JSON, or a later rendering step throws, init ends with the
\* page showing the 'Tutorial Not Found' title, the fallback description and
\* the fallback body, never a blank or partially rendered body.
C4_FailureShowsNotFound ==
    (rPc = "done" /\ renderFailed(rResponse)) =>
        /\ elTitle = NotFoundTitle
        /\ elDesc = NotFoundDesc
        /\ elBody = NotFoundBody

\* a step after the body assignment threw: the tags stay filled in, the
\* body that had been rendered is replaced by the fallback
C4_Witness ==
    /\ rPc = "done"
    /\ rResponse.kind = "json"
    /\ rResponse.laterThrows
    /\ rResponse.data = Data(TRUE, TRUE, TRUE, <<RC_md, RC_code>>)
    /\ elTags
    /\ elTitle = NotFoundTitle
    /\ elBody = NotFoundBody

\* C6: the renderer inserts notebook cell HTML into the page body only after
\* passing the whole assembled HTML through the sanitizer, whether or not the
\* JSON was sanitized at build time: no cell HTML reaches the DOM unsanitized.
C6_BodyIsSanitizedAtRenderTime ==
    elBody.kind = "cells" =>
        /\ elBody.html = sanitize(elBody.html, RenderConfig)
        /\ \A i \in DOMAIN elBody.html :
              /\ elBody.html[i].tag # "script"
              /\ elBody.html[i].attrs \cap {"onerror", "onclick"} = {}

(***************************************************************************)
(* Claims about slugify                                                    *)
(***************************************************************************)
\* C10: slugify is idempotent: slugify(slugify(T)) = slugify(T) for every title T.
C10_SlugifyIdempotent == sPc = "reslug" => sReslug = sSlug

\* C11: for every title T, slugify(T) neither starts nor ends with a hyphen,
\* titles longer than 80 characters included.
C11_NoLeadingOrTrailingHyphen ==
    (sPc \in {"slug", "reslug"} /\ sSlug # <<>>) =>
        /\ Head(sSlug) # Hyphen
        /\ sSlug[Len(sSlug)] # Hyphen

\* C12: for every title T, slugify(T) contains only characters of [a-z0-9-]
\* and has length at most 80.
C12_SlugCharsetAndLength ==
    sPc \in {"slug", "reslug"} =>
        /\ \A i \in DOMAIN sSlug : sSlug[i] \in LowerChars \cup DigitChars \cup {Hyphen}
        /\ Len(sSlug) <= 80

\* a title of more than 80 characters with an upper-case letter, a space and
\* a character outside the set, cut to 80 characters
C12_Witness ==
    /\ sPc = "slug"
    /\ Len(sTitle) > 80
    /\ {"A", " ", "!"} \subseteq {sTitle[i] : i \in DOMAIN sTitle}
    /\ Len(sSlug) = 80

\* the steps as the specification words them, each on its own
lowercased(s) ==
    LET lower == [c \in UpperChars |-> CASE c = "A" -> "a" [] c = "H" -> "h" [] c = "W" -> "w"]
    IN [i \in DOMAIN s |-> IF s[i] \in UpperChars THEN lower[s[i]] ELSE s[i]]

withoutOthers(s) ==
    LET inSet(c) == c \in LowerChars \cup DigitChars \cup SpaceChars \cup {Hyphen}
    IN SelectSeq(s, inSet)

\* every maximal run of characters of R becomes the single character c: the
\* first position of a run stands for the run
runsToOne(s, R, c) ==
    LET at == [i \in DOMAIN s |->
                 IF s[i] \notin R THEN <<s[i]>>
                 ELSE IF i > 1 /\ s[i - 1] \in R THEN <<>>
                 ELSE <<c>>]
        nonEmpty(x) == x # <<>>
        firsts == SelectSeq(at, nonEmpty)
    IN [k \in DOMAIN firsts |-> firsts[k][1]]

trimmed(s) ==
    LET from == IF Len(s) >= 1 /\ s[1] = Hyphen THEN 2 ELSE 1
        to == IF Len(s) >= from /\ s[Len(s)] = Hyphen THEN Len(s) - 1 ELSE Len(s)
    IN SubSeq(s, from, to)

truncated(s) == IF Len(s) > 80 THEN SubSeq(s, 1, 80) ELSE s

claimedSlug(title) ==
    truncated(trimmed(runsToOne(runsToOne(withoutOthers(lowercased(title)),
                                          SpaceChars, Hyphen),
                                {Hyphen}, Hyphen)))

\* C23: slugify(T) is the result of, in this order, lowercasing T, removing
\* every character outside [a-z0-9, whitespace, hyphen], replacing each
\* whitespace run by one hyphen, collapsing repeated hyphens, trimming a
\* leading and a trailing hyphen and truncating to 80 characters; the title
\* "Hello, World! 2024" gives "hello-world-2024".
C23_SlugifySteps ==
    sPc \in {"slug", "reslug"} =>
        /\ sSlug = claimedSlug(sTitle)
        /\ sTitle = HelloWorld2024 =>
              sSlug = <<"h", "e", "l", "l", "o", "-", "w", "o", "r", "l", "d", "-",
                        "2", "0", "2", "4">>

\* the title of the scenario has been slugified
C23_Witness ==
    /\ sPc = "slug"
    /\ sTitle = HelloWorld2024
    /\ Len(sSlug) = 16

(***************************************************************************)
(* Claims about validateSlug                                               *)
(***************************************************************************)
\* C13: validateSlug returns null for every string that contains "/", "..",
\* or a character outside [a-zA-Z0-9_-], and for empty or non-string input;
\* it returns the input unchanged for every non-empty string made only of
\* characters of [a-zA-Z0-9_-].
C13_ValidateSlug ==
    (fnName = "validateSlug" /\ fnRet.returned) =>
        LET s == fnArg.chars
            rejected ==
                \/ fnArg.type # "string"
                \/ s = <<>>
                \/ \E i \in DOMAIN s : s[i] = "/"
                \/ \E i \in DOMAIN s : i < Len(s) /\ s[i] = "." /\ s[i + 1] = "."
                \/ \E i \in DOMAIN s : s[i] \notin {"a", "b", "A", "1", "_", "-"}
        IN IF rejected THEN fnRet.value = JsNull ELSE fnRet.value = fnArg

\* ".." is rejected
C13_Witness ==
    /\ fnName = "validateSlug"
    /\ fnRet.returned
    /\ fnArg = JsString(<<".", ".">>)
    /\ fnRet.value = JsNull

(***************************************************************************)
(* Claims about parseFilename                                              *)
(***************************************************************************)
\* the position of the last "." of a file name, 0 when it has none
lastDot(name) ==
    LET dots == {i \in DOMAIN name : name[i] = "."}
    IN IF dots = {} THEN 0 ELSE CHOOSE i \in dots : \A j \in dots : j <= i

\* the file name without its extension; a name that only starts with a dot
\* has no extension
stemOf(name) ==
    IF lastDot(name) <= 1 THEN name ELSE SubSeq(name, 1, lastDot(name) - 1)

\* the stem is YYYY-MM-DD_slug with a slug of at least one character
datedStem(stem) ==
    /\ Len(stem) >= 12
    /\ \A i \in {1, 2, 3, 4, 6, 7, 9, 10} :
          stem[i] \in {"0", "1", "2", "3", "4", "5", "6", "7", "8", "9"}
    /\ stem[5] = "-" /\ stem[8] = "-" /\ stem[11] = "_"

\* the date and the slug of a stem, as the claim splits it
claimedParse(stem) ==
    IF datedStem(stem)
    THEN [date |-> SubSeq(stem, 1, 10), slug |-> SubSeq(stem, 12, Len(stem))]
    ELSE [date |-> <<>>, slug |-> stem]

C29_IndexedSlugsAreValid ==
    (fnName = "parseFilename" /\ fnRet.returned /\ endsWith(fnArg, Ipynb)) =>
        /\ slugPattern(fnRet.value.slug)
        /\ validateSlug(JsString(fnRet.value.slug)) = JsString(fnRet.value.slug)

(***************************************************************************)
(* Claims about parseFrontmatter                                           *)
(***************************************************************************)
\* C16: for every frontmatter block in which a key's value is a valid JSON
\* array, parseFrontmatter returns that same array for the key; for a
\* bracket-delimited value that is not valid JSON it returns the raw string
\* and does not throw.
C16_FrontmatterArrayRoundTrip ==
    (fnName = "parseFrontmatter" /\ fnRet.returned) =>
        /\ fnArg.key \in DOMAIN fnRet.value
        /\ fnArg.kind = "array" => fnRet.value[fnArg.key] = fnArg.array
        /\ fnArg.kind = "malformed" =>
              fnRet.value[fnArg.key] = JsString(fnArg.raw)

\* tags: [ "],", ["b"] ] comes back as the array of a string and an array
C16_Witness ==
    /\ fnName = "parseFrontmatter"
    /\ fnRet.returned
    /\ fnArg.kind = "array"
    /\ fnArg.key = <<"t", "a", "g", "s">>
    /\ fnArg.array = JsArray(<<JsString(<<"]", ",">>), JsArray(<<JsString(<<"b">>)>>)>>)
    /\ fnArg.raw = <<"[", " ", Quote, "]", ",", Quote, " ", ",", " ",
                     "[", " ", Quote, "b", Quote, " ", "]", " ", "]">>
    /\ fnRet.value[<<"t", "a", "g", "s">>] = fnArg.array

(***************************************************************************)
(* Claims about fetchURL and the fetches                                   *)
(***************************************************************************)
\* C22: nothing is retried.  A feed run calls fetchURL once (the requests a
\* redirect adds aside), a rejection of that call ends the run through
\* build()'s catch, and a page load of the renderer issues at most one fetch.
C22_NothingRetried ==
    /\ fetchCalls <= 1
    /\ blogFetch \in RejectReasons =>
          /\ blogPc = "idle"
          /\ blogResult = "returned"
          /\ blogIndexFile = IndexFile(<<>>)
    /\ Len(fetches) <= 1

\* the one call of a feed run has failed
C22_Witness ==
    /\ fetchCalls = 1
    /\ blogFetch = "HTTP 404"
    /\ req = [url |-> FeedUrl, state |-> "rejected"]

\* C27: the promise fetchURL returns always settles, whatever the server
\* does (a chain or a loop of redirects, a stalled connection, a status other
\* than 200), so a feed run always ends.  Stated for the server behaviours
\* the claim names: the runs in which no body is cut off half way.
C27_FetchAlwaysSettles ==
    [](req.state # "aborted") =>
        ((blogFetch = "pending") ~> (blogFetch # "pending" /\ blogResult = "returned"))

(***************************************************************************)
(* Claims about the outputs of a code cell                                 *)
(***************************************************************************)
\* the class the specification gives an output, "none" for one it drops
claimedClass(output) ==
    CASE output.output_type = "stream" -> "text"
      [] output.output_type = "error" -> "error"
      [] output.output_type \in {"execute_result", "display_data"} ->
            (CASE output.png -> "image"
               [] ~output.png /\ output.html # <<>> -> "html"
               [] ~output.png /\ output.html = <<>> /\ output.plain -> "text"
               [] OTHER -> "none")
      [] OTHER -> "none"

\* C24: every execute_result or display_data output of a code cell is
\* classified by priority (an embedded PNG, else sanitized HTML, else plain
\* text), a stream output becomes text, an error output becomes error, an
\* output that is none of these is dropped, and the outputs that remain keep
\* their order.
C24_OutputsClassifiedInOrder ==
    (fnName = "processOutputs" /\ fnRet.returned) =>
        LET classified(o) == claimedClass(o) # "none"
            kept == SelectSeq(fnArg, classified)
            outs == fnRet.value
        IN /\ Len(outs) = Len(kept)
           /\ \A i \in DOMAIN kept :
                 /\ outs[i].type = claimedClass(kept[i])
                 /\ outs[i].type = "html" =>
                       /\ outs[i].html = sanitize(kept[i].html, NoConfig)
                       /\ \A j \in DOMAIN outs[i].html :
                             /\ outs[i].html[j].tag # "script"
                             /\ "onerror" \notin outs[i].html[j].attrs

\* a cell with an output that holds a PNG, HTML and plain text, followed by
\* an output of an unknown type: one image output is left
C24_Witness ==
    /\ fnName = "processOutputs"
    /\ fnRet.returned
    /\ fnArg = <<Output("display_data", TRUE, H_p, TRUE),
                 Output("update_display_data", FALSE, <<>>, FALSE)>>
    /\ Len(fnRet.value) = 1
    /\ fnRet.value[1].type = "image"

(***************************************************************************)
(* Claims about estimateReadTime                                           *)
(***************************************************************************)
\* the words of a content: the maximal runs of characters other than white
\* space that are left when every tag has been replaced by a space
wordCount(html) ==
    LET text == stripTags(html)
    IN Cardinality({i \in DOMAIN text :
                       /\ text[i] \notin WhiteSpace
                       /\ (i = 1 \/ text[i - 1] \in WhiteSpace)})

\* W of the claim: the tokens of the trimmed text, one (empty) token when
\* the text has no words
claimedTokens(html) == IF wordCount(html) = 0 THEN 1 ELSE wordCount(html)

\* C25: estimateReadTime(html) is "N min read" with N = max(1, round(W / 230)),
\* W the number of space-separated tokens left after replacing the tags by
\* spaces, collapsing white space and trimming; N is at least 1, also for a
\* content without words.
C25_ReadTime ==
    (fnName = "estimateReadTime" /\ fnRet.returned) =>
        LET W == claimedTokens(fnArg)
            half == (W % 230) * 2 >= 230
            N == Max(1, (W \div 230) + (IF half THEN 1 ELSE 0))
        IN /\ fnRet.value = ToString(N) \o " min read"
           /\ N >= 1
           /\ wordCount(fnArg) = 0 => fnRet.value = "1 min read"

\* 345 words and a tag: 345 / 230 = 1.5 is rounded to 2
C25_Witness ==
    /\ fnName = "estimateReadTime"
    /\ fnRet.returned
    /\ fnArg = wordRun(345) \o <<"<", "w", ">">>
    /\ fnRet.value = "2 min read"

(***************************************************************************)
(* Claims about parseMarkdown                                              *)
(***************************************************************************)
occursIn(part, s) == \E i \in 1..(Len(s) + 1) : matchAt(s, i, part)

\* C26: every fenced code block of a markdown source appears in the output
\* of parseMarkdown as a code block that holds the HTML-escaped code of the
\* fence, not changed by the inline rules, and the output holds no
\* placeholder.
C26_FencesRestored ==
    (fnName = "parseMarkdown" /\ fnRet.returned) =>
        LET fences == extractFences(fnArg, <<>>).fences
        IN /\ \A k \in DOMAIN fences : occursIn(codeBlock(fences[k]), fnRet.value)
           /\ \A i \in DOMAIN fnRet.value :
                 \A idx \in 0..MaxParts : fnRet.value[i] # Placeholder(idx)

\* a fence that stands alone in its block is restored
C26_RestoredWhenAlone ==
    /\ fnName = "parseMarkdown"
    /\ fnRet.returned
    /\ fnArg = <<"\n", "\n">> \o Fence \o <<"\n", "*", "<", "*">> \o Fence
    /\ fnRet.value = <<"\n">>
                        \o codeBlock([lang |-> <<"t", "e", "x", "t">>,
                                      code |-> <<"*", "<", "*">>])

(***************************************************************************)
(* Claims about processNotebook                                            *)
(***************************************************************************)
\* C30: the first cell is left out of the rendered cells only when a
\* frontmatter block was parsed from it; every other markdown or code cell,
\* a first cell that starts with "---" and has no closing line included, is
\* in the rendered cells, in the order of the notebook.
C30_FirstCellDroppedOnlyWhenParsed ==
    (fnName = "processNotebook" /\ fnRet.returned /\ fnRet.value.outcome = "entry") =>
        LET cells == fnArg.cells
            kept == IF frontmatterParsed(cells[1].source) THEN Tail(cells) ELSE cells
        IN fnRet.value.renderedData.cells = processCells(kept)

\* a parsed frontmatter cell is left out and the cells after it are kept
C30_ParsedBlockDropped ==
    /\ fnName = "processNotebook"
    /\ fnRet.returned
    /\ fnArg.cells = <<Cell("markdown", <<"---", "title: T", "---">>, <<>>),
                       Cell("code", <<"1">>, <<>>),
                       Cell("markdown", <<"# B">>, <<>>)>>
    /\ Len(fnRet.value.renderedData.cells) = 2

====
